---- MODULE Spec2Model ----
(***************************************************************************)
(* Verification model of swivelsoftware/query-definition:                  *)
(*   QueryDef.apply (src/src/index.ts), SubqueryDef (subquery.ts) and      *)
(*   mergeQuery / dummyQuery (src/src/utils.ts).                           *)
(*                                                                         *)
(* Encoding of JavaScript values                                           *)
(*   - a string that is used as a fragment name or registry key is the     *)
(*     sequence of its ':'-separated pieces, so 'field:a' is               *)
(*     <<"field","a">>, key.split(':') is the sequence itself and          *)
(*     `${prefix}:${name}` is <<prefix>> \o name;                          *)
(*   - any other scalar is a token, see Falsy;                             *)
(*   - an object with insertion-ordered keys (params.subqueries) is a      *)
(*     sequence of [key, value] pairs.                                     *)
(***************************************************************************)
EXTENDS Integers, Sequences, FiniteSets, TLC

\* ------------------------------------------------------------------ bounds
MaxPrereq == 2      \* longest list-form prerequisite
MaxEdges  == 3      \* prerequisite keys over the whole registry
MaxNamed  == 2      \* entries the caller puts in one params list
MaxIndex  == 2      \* largest placeholder index given to SubqueryDef.register
MaxUnknowns == 3    \* placeholders in the tree of one fragment

\* ----------------------------------------------------------- basic helpers
Range(s) == {s[i] : i \in 1..Len(s)}

Contains(s, x) == \E i \in 1..Len(s) : s[i] = x

SeqsUpTo(S, n) == UNION {[1..m -> S] : m \in 0..n}

\* JavaScript scalars are tokens; these are the ones `!v` / `v || d` reject
Falsy == {"undefined", "null", "false", "0", "''"}

Truthy(v) == v \notin Falsy

\* ------------------------------------------------------------ names, keys
Kinds == {"field", "table", "subquery", "groupBy", "orderBy"}

NameA == <<"a">>
NameB == <<"b">>
NameC == <<"c">>
NameDefault == <<"default">>
NameAB == <<"a", "b">>          \* the name 'a:b'

\* commonFunc: `if (prefix) name = `${prefix}:${name}``; subquery() passes ''
KeyOf(kind, name) == IF kind = "subquery" THEN name ELSE <<kind>> \o name

\* ------------------------------------------------------------- limit values
\* params.limit / $limit: undefined, a bare number, or a limit/offset object
NoLimit == [t |-> "undefined", n |-> 0]
NumLimit(n) == [t |-> "number", n |-> n]
ObjLimit(n) == [t |-> "object", n |-> n]

LimitTruthy(l) == l.t = "object" \/ (l.t = "number" /\ l.n # 0)

\* ------------------------------------------------------------------- trees
NoExpr == [cls |-> "none", id |-> <<>>, exprs |-> <<>>]
Cond(id) == [cls |-> "Cond", id |-> id, exprs |-> <<>>]
AndExpressions(es) == [cls |-> "AndExpressions", id |-> <<>>, exprs |-> es]

NoGroup == [present |-> FALSE, expressions |-> <<>>, having |-> NoExpr]

EmptyTree ==
  [distinct |-> FALSE, select |-> <<>>, from |-> <<>>, where |-> NoExpr,
   group |-> NoGroup, hasOrder |-> FALSE, order |-> <<>>, limit |-> NoLimit]

Star == <<"*">>

\* ------------------------------------------------------------------ params
StrEntry(name) == [t |-> "string", name |-> name, direction |-> ""]
KeyEntry(name, dir) == [t |-> "key", name |-> name, direction |-> dir]

EmptyParams ==
  [fields |-> <<>>, tables |-> <<>>, subqueries |-> <<>>, groupBy |-> <<>>,
   sorting |-> <<>>, sortingIsArray |-> TRUE, limit |-> NoLimit,
   conditions |-> NoExpr, distinct |-> FALSE]

\* values stored under params.subqueries[name]
Scalar(tok) == [k |-> "scalar", tok |-> tok, obj |-> <<>>]
Object(pairs) == [k |-> "object", tok |-> "", obj |-> pairs]
TrueVal == Scalar("true")
Undefined == Scalar("undefined")

ValTruthy(v) == v.k = "object" \/ Truthy(v.tok)

\* obj[key] of an insertion-ordered object
ObjHas(obj, key) == \E i \in 1..Len(obj) : obj[i].key = key

ObjGet(obj, key) ==
  IF ObjHas(obj, key)
  THEN obj[CHOOSE i \in 1..Len(obj) : obj[i].key = key].value
  ELSE Undefined

\* obj[key] = value: an existing key keeps its place, a new one goes last
ObjSet(obj, key, value) ==
  IF ObjHas(obj, key)
  THEN [i \in 1..Len(obj) |->
          IF obj[i].key = key THEN [key |-> key, value |-> value] ELSE obj[i]]
  ELSE Append(obj, [key |-> key, value |-> value])

ObjKeys(obj) == [i \in 1..Len(obj) |-> obj[i].key]

\* ------------------------------------------------------------- SubqueryDef
\* this.variables is a sparse array: a slot never assigned is a hole
Hole == [hole |-> TRUE, name |-> "", default |-> "undefined", format |-> ""]
Variable(name, default) ==
  [hole |-> FALSE, name |-> name, default |-> default, format |-> ""]

\* register(name, i, options): this.variables[i] = { name, ...options }
\* (i is 0-based; slot i of the array is element i + 1 of the sequence)
SubqueryDefRegister(variables, name, i, default) ==
  [j \in 1..(IF i + 1 > Len(variables) THEN i + 1 ELSE Len(variables)) |->
     IF j = i + 1 THEN Variable(name, default)
     ELSE IF j <= Len(variables) THEN variables[j] ELSE Hole]

\* the reduce of the getter; Array.prototype.reduce skips holes
RECURSIVE DefaultReduce(_, _)
DefaultReduce(variables, r) ==
  IF variables = <<>> THEN r
  ELSE LET v == Head(variables) IN
       DefaultReduce(Tail(variables),
         IF v.hole THEN r
         ELSE ObjSet(r, v.name, IF Truthy(v.default) THEN v.default ELSE "null"))

\* get default()
SubqueryDefDefault(variables) ==
  IF Len(variables) = 0 THEN TrueVal
  ELSE Object(DefaultReduce(variables, <<>>))

\* prerequisite forms: a list of keys, a params patch, or a function of
\* params that returns one of the two
ListPrerequisite(keys) == [form |-> "list", keys |-> keys, patch |-> EmptyParams]
ObjectPrerequisite(patch) == [form |-> "object", keys |-> <<>>, patch |-> patch]
FnListPrerequisite(keys) == [form |-> "fnList", keys |-> keys, patch |-> EmptyParams]
FnObjectPrerequisite(patch) == [form |-> "fnObject", keys |-> <<>>, patch |-> patch]

RECURSIVE MergeObj(_, _)
MergeObj(x, y) ==
  IF y = <<>> THEN x ELSE MergeObj(ObjSet(x, Head(y).key, Head(y).value), Tail(y))

\* deepmerge(x, y) on params-shaped objects: a NEW object whose arrays are
\* the concatenations and whose objects are merged key by key
DeepMerge(x, y) ==
  [fields |-> x.fields \o y.fields,
   tables |-> x.tables \o y.tables,
   subqueries |-> MergeObj(x.subqueries, y.subqueries),
   groupBy |-> x.groupBy \o y.groupBy,
   sorting |-> x.sorting \o y.sorting,
   sortingIsArray |-> x.sortingIsArray,
   limit |-> IF y.limit.t = "undefined" THEN x.limit ELSE y.limit,
   conditions |-> IF y.conditions.cls = "none" THEN x.conditions ELSE y.conditions,
   distinct |-> x.distinct \/ y.distinct]

NotArray == [isArray |-> FALSE, keys |-> <<>>]
Array(keys) == [isArray |-> TRUE, keys |-> keys]

\* applyPrerequisite(params): what it returns and what it leaves in params.
\* In the object form the merged object deepmerge builds is dropped, and the
\* function forms hand back whatever the function returned.
SubqueryDefApplyPrerequisite(def, p) ==
  LET pre == def.prerequisite
      merged == DeepMerge(p, pre.patch)
  IN CASE pre.form = "list"     -> [value |-> Array(pre.keys), params |-> p]
       [] pre.form = "fnList"   -> [value |-> Array(pre.keys), params |-> p]
       [] pre.form = "fnObject" -> [value |-> NotArray, params |-> p]
       [] pre.form = "object"   -> [value |-> NotArray, params |-> p]

\* ------------------------------------------------------------ utils.ts
RECURSIVE Filter(_, _)
Filter(s, bad) ==
  IF s = <<>> THEN s
  ELSE IF Head(s) = bad THEN Filter(Tail(s), bad)
  ELSE <<Head(s)>> \o Filter(Tail(s), bad)

\* dummyQuery(json): new Query(json) without its unqualified '*' columns
DummyQuery(json) == [json EXCEPT !.select = Filter(json.select, Star)]

FromTable(table, joinClauses) ==
  [table |-> table, nested |-> FALSE, as |-> <<>>, joinClauses |-> joinClauses]

\* a from-table whose `table` is a nested query, under the alias $as
NestedTable(as, joinClauses) ==
  [table |-> <<"(query)">>, nested |-> TRUE, as |-> as,
   joinClauses |-> joinClauses]

\* line 157: typeof table === 'object' ? $as : table
TableName(e) == IF e.nested THEN e.as ELSE e.table

HasTable(from, table) == \E i \in 1..Len(from) : TableName(from[i]) = table

\* line 157: base.$from.find(... === t.table); the `table` of a nested-query
\* entry t is the query object, which no name or alias is equal to
Exists(bfrom, t) == ~t.nested /\ HasTable(bfrom, t.table)

\* the loop of mergeQuery over subquery.$from
RECURSIVE MergeFrom(_, _)
MergeFrom(bfrom, sfrom) ==
  IF sfrom = <<>> THEN bfrom
  ELSE LET t == Head(sfrom) IN
       MergeFrom(
         IF ~Exists(bfrom, t) THEN Append(bfrom, t)
         ELSE LET e == CHOOSE i \in 1..Len(bfrom) :
                         /\ TableName(bfrom[i]) = t.table
                         /\ \A j \in 1..(i - 1) : TableName(bfrom[j]) # t.table
              IN [bfrom EXCEPT ![e].joinClauses = @ \o t.joinClauses],
         Tail(sfrom))

\* normalize($where) of mergeQuery
NormalizeWhere(w) ==
  IF w.cls = "none" THEN <<>> ELSE IF w.cls = "array" THEN w.exprs ELSE <<w>>

\* normalize($group).$having of mergeQuery
NormalizeHaving(h) ==
  IF h.cls = "none" THEN <<>> ELSE IF h.cls = "array" THEN h.exprs ELSE <<h>>

JsArray(es) == [cls |-> "array", id |-> <<>>, exprs |-> es]

MergeGroup(bg, sg) ==
  LET bh == NormalizeHaving(bg.having)
      sh == NormalizeHaving(sg.having)
  IN [present |-> TRUE,
      expressions |-> bg.expressions \o sg.expressions,
      having |-> IF bh = <<>> /\ sh = <<>> THEN NoExpr ELSE JsArray(bh \o sh)]

\* MergeLimit where the addition's limit always replaces the base's
MergeLimitLastWins(blimit, slimit) ==
  IF LimitTruthy(slimit) THEN slimit ELSE blimit

\* if (subquery.$limit && !base.$limit) base.$limit = subquery.$limit
MergeLimit(blimit, slimit) ==
  IF LimitTruthy(slimit) /\ ~LimitTruthy(blimit) THEN slimit ELSE blimit

\* mergeQuery(base, subquery): the new value of base
MergeQuery(b, sub) ==
  [distinct |-> b.distinct \/ sub.distinct,
   select |-> IF sub.select # <<>> THEN b.select \o sub.select ELSE b.select,
   from |-> IF sub.from = <<>> THEN b.from
            ELSE IF b.from = <<>> THEN sub.from
            ELSE MergeFrom(b.from, sub.from),
   where |-> IF sub.where.cls = "none" THEN b.where
             ELSE AndExpressions(NormalizeWhere(b.where) \o NormalizeWhere(sub.where)),
   group |-> IF sub.group.present THEN MergeGroup(b.group, sub.group) ELSE b.group,
   hasOrder |-> b.hasOrder \/ sub.hasOrder,
   order |-> IF sub.hasOrder THEN b.order \o sub.order ELSE b.order,
   limit |-> MergeLimit(b.limit, sub.limit)]

\* ------------------------------------------------- SubqueryDef.apply
\* apply(params): the source tree, or what the source function returns
SubqueryDefApply(def) == DummyQuery(def.arg)

\* apply(name, params): as above; the placeholders of the result are bound
\* from params.subqueries[name] merged over the default
SubqueryDefApplyNamed(def, name, p) == DummyQuery(def.arg)

\* getUnknowns(result) before and after the binding loop: no scan yet, or
\* the value of every placeholder in scan order
NoUnknowns == [scanned |-> FALSE, value |-> <<>>]
Unknowns(value) == [scanned |-> TRUE, value |-> value]

\* value[key] of an object whose values are scalars
PropertyOf(v, key) ==
  IF v.k = "object" /\ ObjHas(v.obj, key)
  THEN v.obj[CHOOSE i \in 1..Len(v.obj) : v.obj[i].key = key].value
  ELSE "undefined"

\* Object.assign(target, source): own properties of an object source are
\* copied onto the target; true, a number or undefined has none
ObjectAssign(target, source) ==
  IF target.k = "object" /\ source.k = "object"
  THEN Object(MergeObj(target.obj, source.obj))
  ELSE target

\* let value = params.subqueries && params.subqueries[name] || undefined
\* value = value === true ? this.default : Object.assign(this.default, value)
BoundValue(variables, raw) ==
  LET value == IF ValTruthy(raw) THEN raw ELSE Undefined
  IN IF value = TrueVal THEN SubqueryDefDefault(variables)
     ELSE ObjectAssign(SubqueryDefDefault(variables), value)

\* the loop over unknowns: `if (variable) unknown.value = value[variable.name]`
\* for a variable without format
BindUnknowns(variables, raw, produced) ==
  [i \in 1..Len(produced) |->
     IF i <= Len(variables) /\ ~variables[i].hole
     THEN PropertyOf(BoundValue(variables, raw), variables[i].name)
     ELSE produced[i]]

\* ------------------------------------- apply(): ordering and classification
\* allCompanions.sort(...): descending by depandCount, equal counts keep
\* their order
RECURSIVE InsertDesc(_, _, _)
InsertDesc(sorted, k, dc) ==
  IF sorted = <<>> THEN <<k>>
  ELSE IF dc[Head(sorted)] >= dc[k]
       THEN <<Head(sorted)>> \o InsertDesc(Tail(sorted), k, dc)
       ELSE <<k>> \o sorted

RECURSIVE SortCompanions(_, _)
SortCompanions(all, dc) ==
  IF all = <<>> THEN all
  ELSE InsertDesc(SortCompanions(SubSeq(all, 1, Len(all) - 1), dc), all[Len(all)], dc)

\* the type the reduce gives a key: pcs[0] when it is one of the four prefixes
CompanionType(k) ==
  IF k[1] \in {"field", "table", "groupBy", "orderBy"} THEN k[1] ELSE "subquery"

\* pcs[type === 'subquery' ? 0 : 1]
CompanionName(k) ==
  IF CompanionType(k) = "subquery" THEN <<k[1]>>
  ELSE IF Len(k) >= 2 THEN <<k[2]>> ELSE <<"undefined">>

RECURSIVE Companions(_, _)
Companions(sorted, type) ==
  IF sorted = <<>> THEN <<>>
  ELSE (IF CompanionType(Head(sorted)) = type
        THEN <<CompanionName(Head(sorted))>> ELSE <<>>)
       \o Companions(Tail(sorted), type)

\* params.fields.reduce(..., companions.field), params.tables.reduce(...)
RECURSIVE ReduceInto(_, _)
ReduceInto(r, entries) ==
  IF entries = <<>> THEN r
  ELSE LET f == Head(entries) IN
       ReduceInto(IF f.t # "string" \/ ~Contains(r, f) THEN Append(r, f) ELSE r,
                  Tail(entries))

\* companions.groupBy.reduce(..., params.groupBy), same for orderBy
RECURSIVE ReduceNames(_, _)
ReduceNames(r, names) ==
  IF names = <<>> THEN r
  ELSE LET g == StrEntry(Head(names)) IN
       ReduceNames(IF ~Contains(r, g) THEN Append(r, g) ELSE r, Tail(names))

\* for (const s of companions.subquery) ...
RECURSIVE AddSubqueries(_, _, _)
AddSubqueries(obj, names, regs) ==
  IF names = <<>> THEN obj
  ELSE LET sname == Head(names) IN
       AddSubqueries(
         IF ~ValTruthy(ObjGet(obj, sname)) /\ sname \in DOMAIN regs
         THEN ObjSet(obj, sname, SubqueryDefDefault(regs[sname].variables))
         ELSE obj,
         Tail(names), regs)

StrEntries(names) == [i \in 1..Len(names) |-> StrEntry(names[i])]

\* lines 367-415: params once the companions are merged into it
MergeCompanions(p, all, dc, regs, withDefault) ==
  LET sorted == SortCompanions(all, dc)
      merged == [p EXCEPT
        !.fields = ReduceInto(StrEntries(Companions(sorted, "field")), p.fields),
        !.tables = ReduceInto(StrEntries(Companions(sorted, "table")), p.tables),
        !.subqueries = AddSubqueries(p.subqueries, Companions(sorted, "subquery"), regs),
        !.groupBy = ReduceNames(p.groupBy, Companions(sorted, "groupBy")),
        !.sorting = ReduceNames(p.sorting, Companions(sorted, "orderBy"))]
  IN IF withDefault /\ NameDefault \in DOMAIN regs
     THEN [merged EXCEPT !.subqueries = ObjSet(@, NameDefault, TrueVal)]
     ELSE merged

\* ----------------------------------------------- apply(): dependency closure
EmptyCount == [k \in {} |-> 0]

\* the prefixes of the five checkPrerequisite calls (fields, tables,
\* subqueries, groupBy, sorting), in order
AttrKind == <<"field", "table", "subquery", "groupBy", "orderBy">>

\* `let array = params[attr] || []; if (!Array.isArray(array)) array = Object.keys(array)`
AttrArray(p, a) ==
  CASE a = 1 -> p.fields
    [] a = 2 -> p.tables
    [] a = 3 -> [i \in 1..Len(p.subqueries) |-> StrEntry(p.subqueries[i].key)]
    [] a = 4 -> p.groupBy
    [] a = 5 -> p.sorting
    [] OTHER -> <<>>

\* position of the next `typeof key === 'string'` entry the five loops reach,
\* the array of an attribute being read when its loop starts
RECURSIVE Advance(_, _, _, _)
Advance(a, i, array, p) ==
  IF a > 5 THEN [attr |-> 6, idx |-> 1, array |-> <<>>]
  ELSE IF i > Len(array) THEN Advance(a + 1, 1, AttrArray(p, a + 1), p)
  ELSE IF array[i].t = "string" THEN [attr |-> a, idx |-> i, array |-> array]
  ELSE Advance(a, i + 1, array, p)

\* a register() call whose prerequisite loop has run to its end returns
RECURSIVE Unwind(_)
Unwind(stk) ==
  IF stk = <<>> THEN stk
  ELSE LET f == stk[Len(stk)] IN
       IF f.i > Len(f.list) THEN Unwind(SubSeq(stk, 1, Len(stk) - 1)) ELSE stk

\* depandCount[key] = depandCount[key] === undefined ? count : depandCount[key] + count
AddCount(dc, key, count) ==
  IF key \in DOMAIN dc THEN [dc EXCEPT ![key] = @ + count]
  ELSE (key :> count) @@ dc

\* PushCompanion without the indexOf test
PushCompanionAlways(all, key) == Append(all, key)

\* if (allCompanions.indexOf(key) === -1) allCompanions.push(key)
PushCompanion(all, key) == IF Contains(all, key) THEN all ELSE Append(all, key)

\* Frame with `registered` left as the caller passed it
FrameKeepsPath(key, registered, value) ==
  [key |-> key, registered |-> registered,
   list |-> IF value.isArray THEN value.keys ELSE <<>>, i |-> 1]

\* the frame of register(key, registered) once `await applyPrerequisite` is back
Frame(key, registered, value) ==
  [key |-> key, registered |-> Append(registered, key),
   list |-> IF value.isArray THEN value.keys ELSE <<>>, i |-> 1]

\* ---------------------------------------------------------------- state
VARIABLES
  subqueries,     \* QueryDef.subqueries: registry key -> SubqueryDef
  baseArg,        \* QueryDef.base: the template tree
  callerParams,   \* the params object the caller passes to apply()
  options,        \* the options object the caller passes to apply()
  params,         \* apply(): the working copy of params
  allCompanions,  \* apply(): keys found by the closure, in discovery order
  depandCount,    \* apply(): accumulated path lengths per key
  stack,          \* apply(): the register() calls in progress
  cursor,         \* apply(): position of the checkPrerequisite loops
  pc,             \* apply(): the step it is at
  base,           \* apply(): the tree being built
  applied,        \* apply(): the fragments applied so far, in order
  error,          \* the error apply() threw, if any
  result,         \* the tree apply() returned, if any
  variables,      \* SubqueryDef.variables of a fragment under registration
  unknowns,       \* the placeholders of the tree its apply(name, params) returned
  logged,         \* what the last registration call wrote to the log
  calls,          \* the other apply() calls: the first one, the suspended one
  context,        \* QueryDef.context: the last context of useShortcuts
  shortcuts,      \* useShortcuts(): the calls made, the descriptors left
  queryDef        \* the QueryDef that clone() returned, if any

vars == <<subqueries, baseArg, callerParams, options, params, allCompanions,
          depandCount, stack, cursor, pc, base, applied, error, result,
          variables, unknowns, logged, calls, context, shortcuts, queryDef>>

NoError == [kind |-> "none", keys |-> <<>>]

\* no prerequisite given: `undefined`
NoPrerequisite == [form |-> "undefined", keys |-> <<>>, patch |-> <<>>]

\* QueryDef.context before the first useShortcuts call, and no call yet
NoContext ==
  [set |-> FALSE, registered |-> <<>>, regPrerequisites |-> <<>>,
   prerequisite |-> NoPrerequisite]
\* clone() not called yet
NoClone == [made |-> FALSE, subqueries |-> <<>>, after |-> 0]
NoShortcuts ==
  [call |-> 0, running |-> FALSE, list |-> <<>>, next |-> 1, mark |-> 0]
NoResult == [returned |-> FALSE, tree |-> EmptyTree]

\* the locals of one apply() call: they live in the call's own closure
IdleLocals ==
  [params |-> EmptyParams, allCompanions |-> <<>>, depandCount |-> EmptyCount,
   stack |-> <<>>, cursor |-> [attr |-> 1, idx |-> 1, array |-> <<>>],
   pc |-> "start", base |-> EmptyTree, applied |-> <<>>, error |-> NoError,
   result |-> NoResult]

Locals ==
  [params |-> params, allCompanions |-> allCompanions,
   depandCount |-> depandCount, stack |-> stack, cursor |-> cursor, pc |-> pc,
   base |-> base, applied |-> applied, error |-> error, result |-> result]

\* what a finished call gave its caller
NoOutcome == [set |-> FALSE, error |-> NoError, result |-> NoResult]
Outcome == [set |-> TRUE, error |-> error, result |-> result]

NoCalls == [first |-> NoOutcome, suspended |-> IdleLocals]

Finished == {"done", "failed"}

\* ------------------------------------------------- apply(): the clause loops
\* an entry of the log of applied fragments: the step that applied it and
\* the registry key it looked up
Applied(step, key) == [step |-> step, key |-> key]

Col(name) == name

OrderBy(expr, direction) == [expression |-> expr, order |-> direction]

\* DefaultFields that ignores skipDefFields
DefaultFieldsAlways(f, skipDefFields) == <<Col(f.name)>>

\* lines 446-464: the columns of an entry that names no registered fragment
DefaultFields(f, skipDefFields) ==
  IF f.t = "string" /\ skipDefFields THEN <<>> ELSE <<Col(f.name)>>

\* lines 430-468: for (const f of params.fields)
RECURSIVE FieldsLoop(_, _, _, _)
FieldsLoop(entries, acc, regs, skipDefFields) ==
  IF entries = <<>> THEN acc
  ELSE LET f == Head(entries)
           key == <<"field">> \o f.name
           q == SubqueryDefApply(regs[key])
           isReg == f.t = "string" /\ key \in DOMAIN regs
           fields == IF isReg THEN DummyQuery(q).select
                     ELSE DefaultFields(f, skipDefFields)
           tree == [acc.tree EXCEPT
                      !.distinct = @ \/ (isReg /\ q.distinct),
                      !.select = @ \o fields]
       IN FieldsLoop(Tail(entries),
                     [tree |-> tree,
                      applied |-> IF isReg THEN Append(acc.applied, Applied("field", key))
                                  ELSE acc.applied],
                     regs, skipDefFields)

\* lines 470-479: for (const t of params.tables)
RECURSIVE TablesLoop(_, _, _)
TablesLoop(entries, acc, regs) ==
  IF entries = <<>> THEN acc
  ELSE LET t == Head(entries)
           key == <<"table">> \o t.name
           q == SubqueryDefApply(regs[key])
           part == DummyQuery([EmptyTree EXCEPT !.from = q.from, !.where = q.where])
       IN TablesLoop(Tail(entries),
                     IF key \in DOMAIN regs
                     THEN [tree |-> MergeQuery(acc.tree, part),
                           applied |-> Append(acc.applied, Applied("table", key))]
                     ELSE acc,
                     regs)

\* lines 481-486: for (const s of Object.keys(params.subqueries))
RECURSIVE SubqueriesLoop(_, _, _, _)
SubqueriesLoop(names, acc, regs, p) ==
  IF names = <<>> THEN acc
  ELSE LET sname == Head(names)
           subquery == DummyQuery(SubqueryDefApplyNamed(regs[sname], sname, p))
       IN SubqueriesLoop(Tail(names),
                         IF sname \in DOMAIN regs
                         THEN [tree |-> MergeQuery(acc.tree, subquery),
                               applied |-> Append(acc.applied, Applied("subquery", sname))]
                         ELSE acc,
                         regs, p)

\* lines 487-497: params.conditions is ANDed onto base.$where
AddConditions(tree, conditions) ==
  IF conditions.cls = "none" THEN tree
  ELSE IF tree.where.cls = "none" THEN [tree EXCEPT !.where = conditions]
  ELSE IF tree.where.cls # "AndExpressions"
       THEN [tree EXCEPT !.where = AndExpressions(<<tree.where, conditions>>)]
  ELSE [tree EXCEPT !.where.exprs = Append(@, conditions)]

\* the local apply({ expressions, $having }) of the groupBy step
ApplyGroup(g, group) ==
  [g EXCEPT !.expressions = @ \o group.expressions,
            !.having = IF group.having.cls = "none" THEN @
                       ELSE @ \o (IF group.having.cls = "array"
                                  THEN group.having.exprs ELSE <<group.having>>)]

\* lines 509-528: for (const g of params.groupBy); acc.g is the pair of the
\* local arrays `expressions` and `$having`
RECURSIVE GroupByLoop(_, _, _)
GroupByLoop(entries, acc, regs) ==
  IF entries = <<>> THEN acc
  ELSE LET g == Head(entries)
           key == <<"groupBy">> \o g.name
           isReg == g.t = "string" /\ key \in DOMAIN regs
           group == DummyQuery([EmptyTree EXCEPT
                       !.group = SubqueryDefApply(regs[key]).group]).group
           next ==
             IF isReg
             THEN [g |-> IF group.present THEN ApplyGroup(acc.g, group) ELSE acc.g,
                   applied |-> Append(acc.applied, Applied("groupBy", key))]
             ELSE IF g.t = "string"
             THEN [acc EXCEPT !.g.expressions = Append(@, Col(g.name))]
             ELSE [acc EXCEPT !.g = ApplyGroup(@, [present |-> TRUE,
                                                   expressions |-> <<Col(g.name)>>,
                                                   having |-> NoExpr])]
       IN GroupByLoop(Tail(entries), next, regs)

\* lines 499-531
GroupByStep(tree, applied_, p, regs) ==
  IF p.groupBy = <<>> THEN [tree |-> tree, applied |-> applied_]
  ELSE LET start == [expressions |-> tree.group.expressions,
                     having |-> IF tree.group.having.cls = "none" THEN <<>>
                                ELSE <<tree.group.having>>]
           end == GroupByLoop(p.groupBy, [g |-> start, applied |-> applied_], regs)
       IN [tree |-> [tree EXCEPT !.group =
                       [present |-> TRUE, expressions |-> end.g.expressions,
                        having |-> JsArray(end.g.having)]],
           applied |-> end.applied]

\* NoOrderBy for a loop that takes a missing $order as no terms
NoOrderByIgnored(q) == FALSE

\* lines 551, 555: `if (order) ... else throw`
NoOrderBy(q) == ~q.hasOrder

\* lines 538-565: for (let o of params.sorting); acc.failed holds the key of
\* the fragment that made the loop throw
RECURSIVE SortingLoop(_, _, _)
SortingLoop(entries, acc, regs) ==
  IF entries = <<>> \/ acc.failed # <<>> THEN acc
  ELSE LET o == Head(entries)
           direction == IF o.t = "key" /\ o.direction # "" THEN o.direction ELSE "ASC"
           isString == o.t \in {"string", "key"}
           key == <<"orderBy">> \o o.name
           isReg == isString /\ key \in DOMAIN regs
           q == DummyQuery([EmptyTree EXCEPT
                   !.hasOrder = SubqueryDefApply(regs[key]).hasOrder,
                   !.order = SubqueryDefApply(regs[key]).order])
           order == IF Len(q.order) = 1
                    THEN <<[q.order[1] EXCEPT !.order = direction]>>
                    ELSE q.order
           next ==
             IF isReg
             THEN IF ~NoOrderBy(q)
                  THEN [acc EXCEPT !.tree.order = @ \o order,
                                   !.applied = Append(@, Applied("orderBy", key))]
                  ELSE [acc EXCEPT !.failed = key,
                                   !.applied = Append(@, Applied("orderBy", key))]
             ELSE IF isString
             THEN [acc EXCEPT !.tree.order = Append(@, OrderBy(Col(o.name), direction))]
             ELSE [acc EXCEPT !.tree.order = Append(@, OrderBy(Col(o.name), o.direction))]
       IN SortingLoop(Tail(entries), next, regs)

\* lines 567-570
SetLimit(tree, limit) ==
  IF LimitTruthy(limit)
  THEN [tree EXCEPT !.limit = IF limit.t = "number" THEN ObjLimit(limit.n) ELSE limit]
  ELSE tree

\* --------------------------------------------------------- apply(): actions
\* WithDefault for a call that never injects `default`
WithDefaultOff == FALSE

\* const { withDefault } = options, after line 312
WithDefault == options.withDefault = "true"

\* CallerOf when apply() works on the caller's object itself
CallerOfAliased(caller, working) == working

\* line 323: params = _.cloneDeep(params); what apply() writes to params
\* from there on goes to the copy, and the caller's object stays as it was
CallerOf(caller, working) == caller

\* TemplateOf when the clauses are merged into this.base itself
TemplateOfShared(template, built) == built

\* line 424: the tree is built on the new Query dummyQuery makes of
\* this.base; the template stays as it was
TemplateOf(template, built) == template

\* lines 311-327: defaults, _.cloneDeep(params), normalisation of sorting
Prepare ==
  /\ pc = "start"
  /\ options' = [options EXCEPT !.withDefault = IF @ = "undefined" THEN "true" ELSE @]
  /\ params' = [callerParams EXCEPT !.sortingIsArray = TRUE]
  /\ cursor' = [attr |-> 1, idx |-> 1, array |-> AttrArray(callerParams, 1)]
  /\ allCompanions' = <<>>
  /\ depandCount' = EmptyCount
  /\ stack' = <<>>
  /\ pc' = "closure"
  /\ UNCHANGED <<subqueries, baseArg, callerParams, base, applied, error,
                 result, variables, unknowns, logged, calls,
                 context, shortcuts, queryDef>>

\* the body of register(key, registered) for a registered key, up to the
\* start of its prerequisite loop; stk holds the callers
Visit(key, registered, stk) ==
  LET pre == SubqueryDefApplyPrerequisite(subqueries[key], params) IN
  /\ allCompanions' = PushCompanion(allCompanions, key)
  /\ depandCount' = AddCount(depandCount, key, Len(registered))
  /\ params' = pre.params
  /\ stack' = Unwind(Append(stk, Frame(key, registered, pre.value)))

NextEntry == Advance(cursor.attr, cursor.idx, cursor.array, params)

\* checkPrerequisite: the next string entry of the five lists is handed to
\* register(target) with an empty path
CheckPrerequisite ==
  /\ pc = "closure"
  /\ stack = <<>>
  /\ NextEntry.attr <= 5
  /\ LET pos == NextEntry
         target == KeyOf(AttrKind[pos.attr], pos.array[pos.idx].name)
     IN /\ cursor' = [pos EXCEPT !.idx = @ + 1]
        /\ IF target \in DOMAIN subqueries
           THEN Visit(target, <<>>, <<>>)
           ELSE UNCHANGED <<allCompanions, depandCount, params, stack,
                            context, shortcuts, queryDef>>
  /\ UNCHANGED <<subqueries, baseArg, callerParams, options, pc, base, applied,
                 error, result, variables, unknowns, logged, calls,
                 context, shortcuts, queryDef>>

TopFrame == stack[Len(stack)]

NextKey == TopFrame.list[TopFrame.i]

\* line 339: the prerequisite key is already on the path
RecursiveDependency ==
  /\ pc = "closure"
  /\ stack # <<>>
  /\ Contains(TopFrame.registered, NextKey)
  /\ error' = [kind |-> "Recursive dependency",
               keys |-> Append(TopFrame.registered, NextKey)]
  /\ pc' = "failed"
  /\ UNCHANGED <<subqueries, baseArg, callerParams, options, params,
                 allCompanions, depandCount, stack, cursor, base, applied,
                 result, variables, unknowns, logged, calls,
                 context, shortcuts, queryDef>>

\* CompanionNotFound throwing for the fragment that named the key
CompanionNotFoundNamesCaller ==
  /\ pc = "closure"
  /\ stack # <<>>
  /\ ~Contains(TopFrame.registered, NextKey)
  /\ NextKey \notin DOMAIN subqueries
  /\ error' = [kind |-> "Companion not found", keys |-> <<TopFrame.key>>]
  /\ pc' = "failed"
  /\ UNCHANGED <<subqueries, baseArg, callerParams, options, params,
                 allCompanions, depandCount, stack, cursor, base, applied,
                 result, variables, unknowns, logged, calls,
                 context, shortcuts, queryDef>>

\* lines 344-346: register(k, registered) for a key that is not registered
CompanionNotFound ==
  /\ pc = "closure"
  /\ stack # <<>>
  /\ ~Contains(TopFrame.registered, NextKey)
  /\ NextKey \notin DOMAIN subqueries
  /\ error' = [kind |-> "Companion not found", keys |-> <<NextKey>>]
  /\ pc' = "failed"
  /\ UNCHANGED <<subqueries, baseArg, callerParams, options, params,
                 allCompanions, depandCount, stack, cursor, base, applied,
                 result, variables, unknowns, logged, calls,
                 context, shortcuts, queryDef>>

\* line 340: register(k, registered) for a registered key
RegisterCompanion ==
  /\ pc = "closure"
  /\ stack # <<>>
  /\ ~Contains(TopFrame.registered, NextKey)
  /\ NextKey \in DOMAIN subqueries
  /\ Visit(NextKey, TopFrame.registered,
           [stack EXCEPT ![Len(stack)].i = @ + 1])
  /\ UNCHANGED <<subqueries, baseArg, callerParams, options, cursor, pc, base,
                 applied, error, result, variables, unknowns, logged, calls,
                 context, shortcuts, queryDef>>

\* lines 367-415: the five loops are over; sort, classify, merge into params
Classify ==
  /\ pc = "closure"
  /\ stack = <<>>
  /\ NextEntry.attr > 5
  /\ params' = MergeCompanions(params, allCompanions, depandCount, subqueries,
                               WithDefault)
  /\ allCompanions' = SortCompanions(allCompanions, depandCount)
  /\ callerParams' = CallerOf(callerParams, params')
  /\ pc' = "base"
  /\ UNCHANGED <<subqueries, baseArg, options, depandCount,
                 stack, cursor, base, applied, error, result,
                 variables, unknowns, logged, calls, context, shortcuts,
                 queryDef>>

\* lines 424-428
BaseQuery ==
  /\ pc = "base"
  /\ base' = [DummyQuery(baseArg) EXCEPT !.distinct = @ \/ params.distinct]
  /\ pc' = "fields"
  /\ UNCHANGED <<subqueries, baseArg, callerParams, options, params,
                 allCompanions, depandCount, stack, cursor, applied, error,
                 result, variables, unknowns, logged, calls,
                 context, shortcuts, queryDef>>

\* ResetSelect that keeps the columns of the template
ResetSelectKept(tree) == tree

\* line 431: const $select = (base.$select = [])
ResetSelect(tree) == [tree EXCEPT !.select = <<>>]

\* lines 430-468
Fields ==
  /\ pc = "fields"
  /\ LET r == IF params.fields = <<>> THEN [tree |-> base, applied |-> applied]
              ELSE FieldsLoop(params.fields,
                              [tree |-> ResetSelect(base),
                               applied |-> applied],
                              subqueries, options.skipDefFields)
     IN base' = r.tree /\ applied' = r.applied
  /\ pc' = "tables"
  /\ UNCHANGED <<subqueries, baseArg, callerParams, options, params,
                 allCompanions, depandCount, stack, cursor, error, result,
                 variables, unknowns, logged, calls, context, shortcuts,
                 queryDef>>

\* lines 470-479
Tables ==
  /\ pc = "tables"
  /\ LET r == TablesLoop(params.tables, [tree |-> base, applied |-> applied],
                         subqueries)
     IN base' = r.tree /\ applied' = r.applied
  /\ pc' = "subqueries"
  /\ UNCHANGED <<subqueries, baseArg, callerParams, options, params,
                 allCompanions, depandCount, stack, cursor, error, result,
                 variables, unknowns, logged, calls, context, shortcuts,
                 queryDef>>

\* lines 481-497
Subqueries ==
  /\ pc = "subqueries"
  /\ LET r == SubqueriesLoop(ObjKeys(params.subqueries),
                             [tree |-> base, applied |-> applied],
                             subqueries, params)
     IN /\ base' = AddConditions(r.tree, params.conditions)
        /\ applied' = r.applied
  /\ pc' = "groupBy"
  /\ UNCHANGED <<subqueries, baseArg, callerParams, options, params,
                 allCompanions, depandCount, stack, cursor, error, result,
                 variables, unknowns, logged, calls, context, shortcuts,
                 queryDef>>

\* lines 499-531
GroupBy ==
  /\ pc = "groupBy"
  /\ LET r == GroupByStep(base, applied, params, subqueries)
     IN base' = r.tree /\ applied' = r.applied
  /\ pc' = "sorting"
  /\ UNCHANGED <<subqueries, baseArg, callerParams, options, params,
                 allCompanions, depandCount, stack, cursor, error, result,
                 variables, unknowns, logged, calls, context, shortcuts,
                 queryDef>>

\* lines 533-565
Sorting ==
  /\ pc = "sorting"
  /\ LET r == SortingLoop(params.sorting,
                          [tree |-> [base EXCEPT !.hasOrder = TRUE],
                           applied |-> applied, failed |-> <<>>],
                          subqueries)
     IN /\ base' = r.tree
        /\ applied' = r.applied
        /\ IF r.failed = <<>>
           THEN pc' = "limit" /\ error' = error
           ELSE /\ pc' = "failed"
                /\ error' = [kind |-> "No order by expressions returned",
                             keys |-> <<r.failed>>]
  /\ UNCHANGED <<subqueries, baseArg, callerParams, options, params,
                 allCompanions, depandCount, stack, cursor, result,
                 variables, unknowns, logged, calls, context, shortcuts,
                 queryDef>>

\* lines 567-573
Limit ==
  /\ pc = "limit"
  /\ base' = SetLimit(base, params.limit)
  /\ params' = [params EXCEPT !.limit =
                  IF LimitTruthy(@) /\ @.t = "number" THEN ObjLimit(@.n) ELSE @]
  /\ result' = [returned |-> TRUE, tree |-> base']
  /\ baseArg' = TemplateOf(baseArg, base')
  /\ callerParams' = CallerOf(callerParams, params')
  /\ pc' = "done"
  /\ UNCHANGED <<subqueries, options, allCompanions, depandCount, stack,
                 cursor, applied, error, variables, unknowns, logged, calls,
                 context, shortcuts, queryDef>>

\* -------------------------------------------------------------- inputs
\* a source that fills every clause, so that each step shows which clauses
\* of a fragment it takes
SourceTree(key, limit) ==
  [distinct |-> FALSE, select |-> <<Col(key)>>,
   from |-> <<FromTable(key, <<>>)>>, where |-> Cond(key),
   group |-> [present |-> TRUE, expressions |-> <<Col(key)>>, having |-> NoExpr],
   hasOrder |-> TRUE, order |-> <<OrderBy(Col(key), "DESC")>>, limit |-> limit]

Def(key, prerequisite, limit) ==
  [arg |-> SourceTree(key, limit), prerequisite |-> prerequisite,
   variables |-> <<>>]

BaseTemplate(limit) ==
  [EmptyTree EXCEPT !.select = <<Star>>,
                    !.from = <<FromTable(<<"base">>, <<>>)>>,
                    !.limit = limit]

Names == {NameA, NameB, NameC}

\* the ways a caller can name a fragment of a kind in params
NamedEntries(kind) ==
  {StrEntry(n) : n \in Names}
  \cup (IF kind = "orderBy" THEN {KeyEntry(n, "DESC") : n \in Names} ELSE {})

Distinct(entries) ==
  \A i, j \in 1..Len(entries) : i # j => entries[i].name # entries[j].name

\* params with the entries put in the attribute of the kind
WithAttr(p, kind, entries) ==
  CASE kind = "field"    -> [p EXCEPT !.fields = entries]
    [] kind = "table"    -> [p EXCEPT !.tables = entries]
    [] kind = "subquery" ->
         [p EXCEPT !.subqueries =
            [i \in 1..Len(entries) |-> [key |-> entries[i].name, value |-> TrueVal]]]
    [] kind = "groupBy"  -> [p EXCEPT !.groupBy = entries]
    [] kind = "orderBy"  -> [p EXCEPT !.sorting = entries]

DefaultOptions == [withDefault |-> "undefined", skipDefFields |-> FALSE]

\* three fragments a, b, c of one kind with any list-form prerequisites over
\* them, maxEdges keys in all; c may be left unregistered; the caller names
\* up to maxNamed of them
WalkInputs(kinds, maxNamed, maxEdges) ==
  \E kind \in kinds, cReg \in BOOLEAN :
    LET ka == KeyOf(kind, NameA)
        kb == KeyOf(kind, NameB)
        kc == KeyOf(kind, NameC)
        Lists == SeqsUpTo({ka, kb, kc}, MaxPrereq)
    IN \E la \in Lists, lb \in Lists, lc \in Lists,
          named \in SeqsUpTo(NamedEntries(kind), maxNamed) :
         /\ Len(la) + Len(lb) + Len(lc) <= maxEdges
         /\ ~cReg => lc = <<>>
         /\ kind = "subquery" => Distinct(named)
         /\ subqueries =
              (ka :> Def(ka, ListPrerequisite(la), NoLimit))
              @@ (kb :> Def(kb, ListPrerequisite(lb), NoLimit))
              @@ (IF cReg THEN kc :> Def(kc, ListPrerequisite(lc), NoLimit)
                  ELSE EmptyCount)
         /\ callerParams = WithAttr(EmptyParams, kind, named)
         /\ baseArg = BaseTemplate(NoLimit)
         /\ options = DefaultOptions

\* deep registries under one named entry, and longer caller lists over
\* shallower registries
InitWalk ==
  \/ WalkInputs(Kinds, 1, MaxEdges)
  \/ WalkInputs(Kinds, MaxNamed, MaxPrereq)

\* a sub-filter named `default`, with or without a prerequisite and a
\* variable, named by the caller, by the prerequisite of field b, or by
\* nobody, and the three values of options.withDefault
InitDefault ==
  \E kind \in Kinds, pre \in BOOLEAN, dep \in BOOLEAN,
     vs \in {<<>>, <<Variable("v", "7")>>},
     value \in {Undefined, TrueVal, Scalar("false"),
                Object(<<[key |-> "v", value |-> "1"]>>)},
     wd \in {"undefined", "true", "false"}, skip \in BOOLEAN :
    LET ka == KeyOf(kind, NameA)
        fb == KeyOf("field", NameB)
    IN
    /\ subqueries =
         (NameDefault :>
            [Def(NameDefault, ListPrerequisite(IF pre THEN <<ka>> ELSE <<>>),
                 NoLimit) EXCEPT !.variables = vs])
         @@ (ka :> Def(ka, ListPrerequisite(<<>>), NoLimit))
         @@ (fb :> Def(fb, ListPrerequisite(IF dep THEN <<NameDefault>> ELSE <<>>),
                       NoLimit))
    /\ callerParams =
         [EmptyParams EXCEPT
            !.subqueries = IF value = Undefined THEN <<>>
                           ELSE <<[key |-> NameDefault, value |-> value]>>,
            !.fields = <<StrEntry(NameC), StrEntry(NameB)>>]
    /\ baseArg = BaseTemplate(NoLimit)
    /\ options = [withDefault |-> wd, skipDefFields |-> skip]

\* a fragment of one kind whose prerequisite is a fragment of another kind,
\* or a params patch or function that names it
InitMixed ==
  \E k1 \in Kinds, k2 \in Kinds, form \in {"list", "object", "fnList", "fnObject"},
     single \in BOOLEAN : \E entry \in NamedEntries(k1) :
    LET ka == KeyOf(k1, NameA)
        kb == KeyOf(k2, NameB)
        patch == WithAttr(EmptyParams, k2, <<StrEntry(NameB)>>)
        pre == CASE form = "list"     -> ListPrerequisite(<<kb>>)
                 [] form = "fnList"   -> FnListPrerequisite(<<kb>>)
                 [] form = "object"   -> ObjectPrerequisite(patch)
                 [] form = "fnObject" -> FnObjectPrerequisite(patch)
    IN /\ entry.name = NameA
       /\ single => k1 = "orderBy"
       /\ subqueries = (ka :> Def(ka, pre, NoLimit))
                       @@ (kb :> Def(kb, ListPrerequisite(<<>>), NoLimit))
       /\ callerParams = [WithAttr(EmptyParams, k1, <<entry>>)
                            EXCEPT !.sortingIsArray = ~single]
       /\ baseArg = BaseTemplate(NoLimit)
       /\ options = DefaultOptions

\* a fragment whose name holds the delimiter, 'a:b', with or without a
\* fragment 'a' of the same kind beside it
InitColon ==
  \E kind \in Kinds, short \in BOOLEAN, skip \in BOOLEAN,
     named \in SeqsUpTo({StrEntry(NameAB), StrEntry(NameA)}, MaxNamed) :
    LET kab == KeyOf(kind, NameAB)
        ka == KeyOf(kind, NameA)
    IN /\ Distinct(named)
       /\ subqueries =
            (kab :> Def(kab, ListPrerequisite(<<>>), NoLimit))
            @@ (IF short THEN ka :> Def(ka, ListPrerequisite(<<>>), NoLimit)
                ELSE EmptyCount)
       /\ callerParams = WithAttr(EmptyParams, kind, named)
       /\ baseArg = BaseTemplate(NoLimit)
       /\ options = [withDefault |-> "undefined", skipDefFields |-> skip]

\* an orderBy fragment with one or two order terms, named by a plain string
\* or by a { key, direction } entry with or without a direction
InitOrder ==
  \E two \in BOOLEAN, own \in {"ASC", "DESC"},
     entry \in {StrEntry(NameA), KeyEntry(NameA, ""), KeyEntry(NameA, "ASC"),
                KeyEntry(NameA, "DESC")},
     more \in SeqsUpTo({StrEntry(NameB)}, 1) :
    LET oa == KeyOf("orderBy", NameA)
        terms == <<OrderBy(Col(oa), own)>>
                 \o (IF two THEN <<OrderBy(Col(NameC), "DESC")>> ELSE <<>>)
    IN /\ subqueries =
            (oa :> [Def(oa, ListPrerequisite(<<>>), NoLimit)
                      EXCEPT !.arg.order = terms])
       /\ callerParams = WithAttr(EmptyParams, "orderBy", <<entry>> \o more)
       /\ baseArg = BaseTemplate(NoLimit)
       /\ options = DefaultOptions

\* limits in the template, in the fragments and in params
InitLimit ==
  \E la \in {NoLimit, ObjLimit(3)}, lb \in {NoLimit, ObjLimit(4)},
     lbase \in {NoLimit, ObjLimit(5)}, pre \in BOOLEAN,
     named \in SeqsUpTo({StrEntry(NameA), StrEntry(NameB)}, MaxNamed),
     fields \in {<<>>, <<StrEntry(NameA)>>},
     limit \in {NoLimit, NumLimit(0), NumLimit(2), ObjLimit(0), ObjLimit(7)} :
    LET fa == KeyOf("field", NameA) IN
    /\ Distinct(named)
    /\ subqueries =
         (NameA :> Def(NameA, ListPrerequisite(IF pre THEN <<NameB>> ELSE <<>>), la))
         @@ (NameB :> Def(NameB, ListPrerequisite(<<>>), lb))
         @@ (fa :> Def(fa, ListPrerequisite(<<>>), ObjLimit(6)))
    /\ callerParams = [WithAttr(EmptyParams, "subquery", named)
                         EXCEPT !.fields = fields, !.limit = limit]
    /\ baseArg = BaseTemplate(lbase)
    /\ options = DefaultOptions

\* apply() has not started
Idle ==
  /\ params = EmptyParams
  /\ allCompanions = <<>>
  /\ depandCount = EmptyCount
  /\ stack = <<>>
  /\ cursor = [attr |-> 1, idx |-> 1, array |-> <<>>]
  /\ pc = "start"
  /\ base = EmptyTree
  /\ applied = <<>>
  /\ error = NoError
  /\ result = NoResult
  /\ variables = <<>>
  /\ unknowns = NoUnknowns
  /\ logged = <<>>
  /\ calls = NoCalls
  /\ context = NoContext
  /\ shortcuts = NoShortcuts
  /\ queryDef = NoClone

Init ==
  (InitWalk \/ InitDefault \/ InitMixed \/ InitColon \/ InitOrder \/ InitLimit)
  /\ Idle

Next ==
  \/ Prepare
  \/ CheckPrerequisite
  \/ RegisterCompanion
  \/ RecursiveDependency
  \/ CompanionNotFound
  \/ Classify
  \/ BaseQuery
  \/ Fields
  \/ Tables
  \/ Subqueries
  \/ GroupBy
  \/ Sorting
  \/ Limit

Spec == Init /\ [][Next]_vars

\* the same walk for the termination check: the caller names one fragment,
\* and every awaited step of apply() completes
InitLive == WalkInputs({"field", "orderBy"}, 1, MaxEdges) /\ Idle

LiveSpec == InitLive /\ [][Next]_vars /\ WF_vars(Next)

\* ------------------------------------------- SubqueryDef.register alone
VarNames == {"a", "b"}

\* the `default` option of register(): left out, or any value
VarDefaults == {"undefined", "0", "false", "''", "1", "x"}

\* subqueryDef.register(name, i, { default }); the variables are registered
\* when the fragment is defined, before it is applied
RegisterVariable ==
  /\ \E name \in VarNames, i \in 0..MaxIndex, default \in VarDefaults :
       variables' = SubqueryDefRegister(variables, name, i, default)
  /\ ~unknowns.scanned
  /\ UNCHANGED <<subqueries, baseArg, callerParams, options, params,
                 allCompanions, depandCount, stack, cursor, pc, base, applied,
                 error, result, unknowns, logged, calls, context, shortcuts,
                 queryDef>>

\* what a caller may put under params.subqueries[name]
RawValues ==
  {Undefined, TrueVal, Scalar("5"), Object(<<>>),
   Object(<<[key |-> "a", value |-> "5"]>>),
   Object(<<[key |-> "a", value |-> "0"]>>),
   Object(<<[key |-> "b", value |-> "6"]>>),
   Object(<<[key |-> "a", value |-> "5"], [key |-> "b", value |-> "6"]>>)}

\* the placeholders of the tree the source gives, each with the value the
\* source left in it
Produced(n) == [i \in 1..n |-> "src"]

\* subqueryDef.apply(name, params) with params.subqueries[name] = raw, on a
\* source whose tree has n placeholders
ApplyNamed ==
  /\ ~unknowns.scanned
  /\ \E raw \in RawValues, n \in 0..MaxUnknowns :
       /\ callerParams' =
            [callerParams EXCEPT
               !.subqueries = IF raw = Undefined THEN <<>>
                              ELSE <<[key |-> NameA, value |-> raw]>>]
       /\ unknowns' = Unknowns(BindUnknowns(variables, raw, Produced(n)))
  /\ UNCHANGED <<subqueries, baseArg, options, params, allCompanions,
                 depandCount, stack, cursor, pc, base, applied, error, result,
                 variables, logged, calls, context, shortcuts, queryDef>>

\* a fragment fresh from its constructor, on a QueryDef nothing is applied to
InitDef ==
  /\ subqueries = EmptyCount
  /\ baseArg = BaseTemplate(NoLimit)
  /\ callerParams = EmptyParams
  /\ options = DefaultOptions
  /\ Idle

NextDef ==
  \/ RegisterVariable
  \/ ApplyNamed

\* -------------------------------------------- more than one apply() call
\* the running call takes up the locals l
SetLocals(l) ==
  /\ params' = l.params
  /\ allCompanions' = l.allCompanions
  /\ depandCount' = l.depandCount
  /\ stack' = l.stack
  /\ cursor' = l.cursor
  /\ pc' = l.pc
  /\ base' = l.base
  /\ applied' = l.applied
  /\ error' = l.error
  /\ result' = l.result

\* the first call is over and its caller calls apply() again, with the same
\* params and options objects
Again ==
  /\ pc \in Finished
  /\ ~calls.first.set
  /\ calls' = [first |-> Outcome, suspended |-> IdleLocals]
  /\ SetLocals(IdleLocals)
  /\ UNCHANGED <<subqueries, baseArg, callerParams, options, variables,
                 unknowns, logged, context, shortcuts, queryDef>>

\* Resume with the companion list and the depend counts kept on the QueryDef
ResumeShared(saved, running) ==
  [saved EXCEPT !.allCompanions = running.allCompanions,
                !.depandCount = running.depandCount]

\* the locals a call finds when it goes on after an await: those it had,
\* whatever the call that ran meanwhile did to its own
Resume(saved, running) == saved

\* the running call waits at an await and the other call goes on (or starts)
Switch ==
  /\ calls.first.set
  /\ pc \notin Finished \/ calls.suspended.pc \notin Finished
  /\ calls' = [calls EXCEPT !.suspended = Locals]
  /\ SetLocals(Resume(calls.suspended, Locals))
  /\ UNCHANGED <<subqueries, baseArg, callerParams, options, variables,
                 unknowns, logged, context, shortcuts, queryDef>>

\* a registry of fragments with prerequisites, or with a default sub-filter,
\* or of several kinds, under a call that names some of them
InitTwice ==
  (WalkInputs(Kinds, 1, MaxPrereq) \/ InitDefault \/ InitMixed \/ InitLimit)
  /\ Idle

\* apply() called twice, one call after the other
NextTwice ==
  \/ Next
  \/ Again

SpecTwice == InitTwice /\ [][NextTwice]_vars

\* apply() called once, then twice with the two calls interleaved
NextPair ==
  \/ Next
  \/ Again
  \/ Switch

SpecPair == InitTwice /\ [][NextPair]_vars

SpecDef == InitDef /\ [][NextDef]_vars

\* ------------------------------------- fragments that leave clauses out
\* a source with the clauses given; an empty order list is no $order at all
Source(select, from, where, group, order) ==
  [distinct |-> FALSE, select |-> select, from |-> from, where |-> where,
   group |-> group, hasOrder |-> order # <<>>, order |-> order,
   limit |-> NoLimit]

Group(expressions, having) ==
  [present |-> TRUE, expressions |-> expressions, having |-> having]

Fragment(arg) == [arg |-> arg, prerequisite |-> ListPrerequisite(<<>>),
                  variables |-> <<>>]

TableT == <<"t">>
TableU == <<"u">>

\* groupBy and orderBy fragments with or without their clause, with or
\* without having-conditions, beside a sub-filter and a template that may
\* bring a group-by clause of their own
InitGroupOrder ==
  \E ga \in {NoGroup, Group(<<Col(<<"ga">>)>>, NoExpr),
             Group(<<Col(<<"ga">>)>>, Cond(<<"ha">>)),
             Group(<<Col(<<"ga">>)>>,
                   AndExpressions(<<Cond(<<"ha">>), Cond(<<"hc">>)>>))},
     oa \in {<<>>, <<OrderBy(Col(<<"oa">>), "DESC")>>},
     bg \in {NoGroup, Group(<<Col(<<"g0">>)>>, Cond(<<"h0">>))},
     sg \in {NoGroup, Group(<<Col(<<"gs">>)>>, Cond(<<"hs">>))},
     groupBy \in {<<>>, <<StrEntry(NameA)>>, <<StrEntry(NameA), StrEntry(NameB)>>,
                  <<StrEntry(NameB), StrEntry(NameA)>>, <<StrEntry(NameC)>>},
     sorting \in {<<>>, <<StrEntry(NameA)>>, <<StrEntry(NameC)>>},
     subs \in {<<>>, <<StrEntry(NameA)>>} :
    /\ subqueries =
         (KeyOf("groupBy", NameA) :> Fragment(Source(<<>>, <<>>, NoExpr, ga, <<>>)))
         @@ (KeyOf("groupBy", NameB) :>
               Fragment(Source(<<>>, <<>>, NoExpr,
                               Group(<<Col(<<"gb">>)>>, Cond(<<"hb">>)), <<>>)))
         @@ (KeyOf("orderBy", NameA) :> Fragment(Source(<<>>, <<>>, NoExpr, NoGroup, oa)))
         @@ (NameA :> Fragment(Source(<<>>, <<>>, Cond(<<"wa">>), sg, <<>>)))
    /\ callerParams =
         [WithAttr(EmptyParams, "subquery", subs)
            EXCEPT !.groupBy = groupBy, !.sorting = sorting]
    /\ baseArg = [BaseTemplate(NoLimit) EXCEPT !.group = bg]
    /\ options = DefaultOptions

\* sub-filters and a table fragment that bring where-conditions and
\* from-tables, over a template that has some already
InitWhereFrom ==
  \E wa \in {NoExpr, Cond(<<"wa">>),
             AndExpressions(<<Cond(<<"wa">>), Cond(<<"wc">>)>>)},
     wb \in {NoExpr, Cond(<<"wb">>)},
     bw \in {NoExpr, Cond(<<"w0">>),
             AndExpressions(<<Cond(<<"w0">>), Cond(<<"w1">>)>>)},
     fa \in {<<>>, <<FromTable(TableT, <<<<"ja">>>>)>>,
             <<NestedTable(TableT, <<<<"ja">>>>)>>,
             <<FromTable(TableU, <<>>), FromTable(TableT, <<<<"ja">>>>)>>},
     fb \in {<<>>, <<FromTable(TableT, <<<<"jb">>, <<"jc">>>>)>>,
             <<FromTable(TableU, <<<<"jb">>>>)>>},
     bf \in {<<>>, <<FromTable(TableT, <<<<"j0">>>>)>>,
             <<NestedTable(TableT, <<<<"j0">>>>)>>},
     subs \in {<<>>, <<StrEntry(NameA)>>, <<StrEntry(NameB)>>,
               <<StrEntry(NameA), StrEntry(NameB)>>,
               <<StrEntry(NameB), StrEntry(NameA)>>},
     tables \in {<<>>, <<StrEntry(NameA)>>} :
    /\ subqueries =
         (NameA :> Fragment(Source(<<>>, fa, wa, NoGroup, <<>>)))
         @@ (NameB :> Fragment(Source(<<>>, fb, wb, NoGroup, <<>>)))
         @@ (KeyOf("table", NameA) :>
               Fragment(Source(<<>>, <<FromTable(TableT, <<<<"jt">>>>)>>,
                               Cond(<<"wt">>), NoGroup, <<>>)))
    /\ callerParams =
         [WithAttr(EmptyParams, "subquery", subs) EXCEPT !.tables = tables]
    /\ baseArg = [BaseTemplate(NoLimit) EXCEPT !.from = bf, !.where = bw]
    /\ options = DefaultOptions

\* templates with select columns of their own, under calls with and without
\* fields, beside a sub-filter that may bring select columns
InitSelect ==
  \E bs \in {<<Star>>, <<Star, Col(<<"c0">>)>>, <<Col(<<"c0">>), Col(<<"c1">>)>>},
     sa \in {<<>>, <<Col(<<"sa">>)>>},
     fs \in {<<>>, <<Star>>, <<Col(<<"fa">>), Col(<<"fb">>)>>},
     fields \in {<<>>, <<StrEntry(NameA)>>, <<StrEntry(NameC)>>,
                 <<StrEntry(NameC), StrEntry(NameA)>>},
     subs \in {<<>>, <<StrEntry(NameA)>>},
     skip \in BOOLEAN :
    /\ subqueries =
         (NameA :> Fragment(Source(sa, <<>>, NoExpr, NoGroup, <<>>)))
         @@ (KeyOf("field", NameA) :> Fragment(Source(fs, <<>>, NoExpr, NoGroup, <<>>)))
    /\ callerParams =
         [WithAttr(EmptyParams, "subquery", subs) EXCEPT !.fields = fields]
    /\ baseArg = [BaseTemplate(NoLimit) EXCEPT !.select = bs]
    /\ options = [withDefault |-> "undefined", skipDefFields |-> skip]

InitClauses ==
  (\/ InitGroupOrder
   \/ InitWhereFrom
   \/ InitSelect
   \/ WalkInputs({"orderBy"}, 1, MaxPrereq))
  /\ Idle

SpecClauses == InitClauses /\ [][Next]_vars

\* ------------------------------------------------- FixRegexpProcessor alone
\* strings are sequences of characters
Meta ==
  {"-", "/", "\\", "^", "$", "*", "+", "?", ".", "(", ")", "|", "[", "]",
   "{", "}"}

\* part_003 lines 7-9: value.replace(/[-\/\\^$*+?.()|[\]{}]/g, '\\$&')
RECURSIVE escapeRegex(_)
escapeRegex(value) ==
  IF value = <<>> THEN <<>>
  ELSE (IF Head(value) \in Meta THEN <<"\\", Head(value)>> ELSE <<Head(value)>>)
       \o escapeRegex(Tail(value))

\* what a value field holds: a string, or something that is no string
Str(chars) == [t |-> "string", s |-> chars]
NotStr == [t |-> "number", s |-> <<>>]

\* a JavaScript string and a RegExp object where an expression may stand
JsString(chars) == [cls |-> "string", value |-> Str(chars)]
JsRegExp == [cls |-> "RegExp", value |-> NotStr]

\* the node-jql expressions, by the name of their class
Value(v) == [cls |-> "Value", value |-> v]
Unknown(v) == [cls |-> "Unknown", value |-> v]
ColumnExpression == [cls |-> "ColumnExpression"]
RegexpExpression(left, right) ==
  [cls |-> "RegexpExpression", left |-> left, right |-> right]
BinaryExpression(cls, left, right) == [cls |-> cls, left |-> left, right |-> right]
LeftExpression(cls, left) == [cls |-> cls, left |-> left]
BetweenExpression(left, start, end) ==
  [cls |-> "BetweenExpression", left |-> left, start |-> start, end |-> end]
GroupedExpressions(cls, expressions) == [cls |-> cls, expressions |-> expressions]
CaseExpression(cases, else) ==
  [cls |-> "CaseExpression", cases |-> cases, else |-> else]
FunctionExpression(parameters) ==
  [cls |-> "FunctionExpression", parameters |-> parameters]
ParameterExpression(expression) ==
  [cls |-> "ParameterExpression", expression |-> expression]
QueryExpression(query) == [cls |-> "QueryExpression", query |-> query]
ExistsExpression(query) == [cls |-> "ExistsExpression", query |-> query]
InExpression(left, right) == [cls |-> "InExpression", left |-> left, right |-> right]

\* a query as the processor reads it; an optional clause is a list of at
\* most one element
EmptyQuery ==
  [cls |-> "Query", select |-> <<>>, from |-> <<>>, where |-> <<>>,
   group |-> <<>>, having |-> <<>>, order |-> <<>>, limit |-> <<>>]

\* a from-table: `table` is empty for a table named by a string and holds
\* the query of a nested one
Table(table, joinClauses) == [table |-> table, joinClauses |-> joinClauses]
JoinClause(table, on) == [table |-> <<table>>, on |-> on]

RECURSIVE fix(_, _), fixRegexp(_), fixTable(_)
\* part_003 lines 11-108
fix(json, isRegexp) ==
  CASE json.cls = "BetweenExpression" ->
         [json EXCEPT !.left = fix(@, FALSE), !.start = fix(@, FALSE),
                      !.end = fix(@, FALSE)]
    [] json.cls \in {"BinaryExpression", "MathExpression"} ->
         [json EXCEPT !.left = fix(@, FALSE), !.right = fix(@, FALSE)]
    [] json.cls = "CaseExpression" ->
         [json EXCEPT
            !.cases = [i \in 1..Len(@) |->
                         [when |-> fix(@[i].when, FALSE),
                          then |-> fix(@[i].then, FALSE)]],
            !.else = [i \in 1..Len(@) |-> fix(@[i], FALSE)]]
    [] json.cls = "ExistsFunction" ->
         [json EXCEPT !.query = fixRegexp(@)]
    [] json.cls = "FunctionExpression" ->
         [json EXCEPT
            !.parameters = [i \in 1..Len(@) |->
                              IF @[i].cls = "string" THEN @[i]
                              ELSE fix(@[i], FALSE)]]
    [] json.cls \in {"OrExpressions", "AndExpressions"} ->
         [json EXCEPT !.expressions = [i \in 1..Len(@) |-> fix(@[i], FALSE)]]
    [] json.cls = "InExpression" ->
         [json EXCEPT !.left = fix(@, FALSE),
                      !.right = IF @.cls = "Query" THEN fixRegexp(@) ELSE @]
    [] json.cls \in {"IsNullExpression", "LikeExpression"} ->
         [json EXCEPT !.left = fix(@, FALSE)]
    [] json.cls = "ParameterExpression" ->
         [json EXCEPT !.expression = fix(@, FALSE)]
    [] json.cls = "QueryExpression" ->
         [json EXCEPT !.query = fixRegexp(@)]
    [] json.cls = "RegexpExpression" ->
         [json EXCEPT
            !.left = fix(@, FALSE),
            !.right = IF @.cls = "string"
                      THEN [@ EXCEPT !.value.s = escapeRegex(@)]
                      ELSE IF @.cls # "RegExp" THEN fix(@, TRUE) ELSE @]
    [] json.cls \in {"Unknown", "Value"} ->
         IF isRegexp /\ json.value.t = "string"
         THEN [json EXCEPT !.value.s = escapeRegex(@)]
         ELSE json
    [] OTHER -> json

\* part_003 lines 117-130
fixTable(t) ==
  [table |-> [i \in 1..Len(t.table) |-> fixRegexp(t.table[i])],
   joinClauses |->
     [i \in 1..Len(t.joinClauses) |->
        [table |-> [j \in 1..Len(t.joinClauses[i].table) |->
                      fixTable(t.joinClauses[i].table[j])],
         on |-> [j \in 1..Len(t.joinClauses[i].on) |->
                   fix(t.joinClauses[i].on[j], FALSE)]]]]

\* part_003 lines 6-176
fixRegexp(query) ==
  [query EXCEPT
     !.select = [i \in 1..Len(@) |-> fix(@[i], FALSE)],
     !.from = [i \in 1..Len(@) |-> fixTable(@[i])],
     !.where = [i \in 1..Len(@) |-> fix(@[i], FALSE)],
     !.group = [i \in 1..Len(@) |-> fix(@[i], FALSE)],
     !.having = [i \in 1..Len(@) |-> fix(@[i], FALSE)],
     !.order = [i \in 1..Len(@) |-> fix(@[i], FALSE)],
     !.limit = [i \in 1..Len(@) |-> fix(@[i], FALSE)]]

\* index.ts line 572: the tree built goes through the post-processors
PostProcess ==
  /\ pc = "post"
  /\ result' = [returned |-> TRUE, tree |-> fixRegexp(base)]
  /\ pc' = "done"
  /\ UNCHANGED <<subqueries, baseArg, callerParams, options, params,
                 allCompanions, depandCount, stack, cursor, base, applied,
                 error, variables, unknowns, logged, calls,
                 context, shortcuts, queryDef>>

\* the strings tried: with metacharacters, without, and with a backslash
StringDot == <<"a", ".", "b">>
StringPlain == <<"a", "b">>
StringGroup == <<"(", "x", ")", "\\", "d">>

\* what stands right of REGEXP
Rights ==
  {JsString(StringDot), JsString(StringPlain), JsRegExp,
   Value(Str(StringDot)), Value(Str(StringGroup)), Value(NotStr),
   Unknown(Str(StringDot)), Unknown(NotStr)}

\* a comparison with a string that is no pattern
Other == BinaryExpression("BinaryExpression", ColumnExpression, Value(Str(StringDot)))

Within(e) == [EmptyQuery EXCEPT !.where = <<e>>]

\* the expressions an expression e is put into
Wraps(e) ==
  {e,
   GroupedExpressions("AndExpressions", <<Other, e>>),
   GroupedExpressions("OrExpressions", <<e, Other>>),
   BinaryExpression("BinaryExpression", ColumnExpression, e),
   BinaryExpression("MathExpression", e, Value(NotStr)),
   BetweenExpression(ColumnExpression, e, e),
   CaseExpression(<<[when |-> e, then |-> Value(Str(StringDot))]>>, <<e>>),
   FunctionExpression(<<JsString(StringDot), e>>),
   LeftExpression("IsNullExpression", e),
   BinaryExpression("LikeExpression", e, Value(Str(StringDot))),
   ParameterExpression(e),
   QueryExpression(Within(e)),
   ExistsExpression(Within(e)),
   InExpression(ColumnExpression, Within(e)),
   InExpression(e, Value(NotStr))}

\* the places of a query an expression e is put at
Places(e) ==
  {[EmptyQuery EXCEPT !.select = <<e>>],
   [EmptyQuery EXCEPT !.from = <<Table(<<Within(e)>>, <<>>)>>],
   [EmptyQuery EXCEPT !.from = <<Table(<<>>, <<JoinClause(Table(<<>>, <<>>), <<e>>)>>)>>],
   [EmptyQuery EXCEPT !.from =
      <<Table(<<>>, <<JoinClause(Table(<<Within(e)>>, <<>>), <<Other>>)>>)>>],
   [EmptyQuery EXCEPT !.where = <<e>>],
   [EmptyQuery EXCEPT !.select = <<Other>>, !.group = <<e>>],
   [EmptyQuery EXCEPT !.group = <<ColumnExpression>>, !.having = <<e>>],
   [EmptyQuery EXCEPT !.order = <<e>>]}

InitFix ==
  /\ subqueries = EmptyCount
  /\ baseArg = BaseTemplate(NoLimit)
  /\ callerParams = EmptyParams
  /\ options = DefaultOptions
  /\ params = EmptyParams
  /\ allCompanions = <<>>
  /\ depandCount = EmptyCount
  /\ stack = <<>>
  /\ cursor = [attr |-> 1, idx |-> 1, array |-> <<>>]
  /\ pc = "post"
  /\ \E r \in Rights :
       \E e \in Wraps(RegexpExpression(ColumnExpression, r)) :
         base \in Places(e)
  /\ applied = <<>>
  /\ error = NoError
  /\ result = NoResult
  /\ variables = <<>>
  /\ unknowns = NoUnknowns
  /\ logged = <<>>
  /\ calls = NoCalls
  /\ context = NoContext
  /\ shortcuts = NoShortcuts
  /\ queryDef = NoClone

NextFix == PostProcess

SpecFix == InitFix /\ [][NextFix]_vars

\* --------------------------------------------------------- getUnknowns alone
RECURSIVE getUnknowns(_), Flatten(_), FlattenJoins(_), FlattenCases(_)
\* result.push(...getUnknowns(x)) for every x of a list
Flatten(list) ==
  IF list = <<>> THEN <<>>
  ELSE getUnknowns(Head(list)) \o Flatten(Tail(list))

\* lines 59-65: of a from-table, the on-conditions of its join clauses
FlattenJoins(joinClauses) ==
  IF joinClauses = <<>> THEN <<>>
  ELSE Flatten(Head(joinClauses).on) \o FlattenJoins(Tail(joinClauses))

\* lines 86-89: for (const { $when, $then } of arg.cases)
FlattenCases(cases) ==
  IF cases = <<>> THEN <<>>
  ELSE getUnknowns(Head(cases).when) \o getUnknowns(Head(cases).then)
       \o FlattenCases(Tail(cases))

\* utils.ts lines 29-116; a from-table is the node that has joinClauses
getUnknowns(arg) ==
  IF "joinClauses" \in DOMAIN arg THEN FlattenJoins(arg.joinClauses)
  ELSE
  CASE arg.cls = "Query" ->
         Flatten(arg.select) \o Flatten(arg.from) \o Flatten(arg.where)
         \o Flatten(arg.group) \o Flatten(arg.having) \o Flatten(arg.order)
    [] arg.cls \in {"AndExpressions", "OrExpressions"} ->
         Flatten(arg.expressions)
    [] arg.cls = "BetweenExpression" ->
         getUnknowns(arg.left) \o getUnknowns(arg.start) \o getUnknowns(arg.end)
    [] arg.cls \in {"BinaryExpression", "InExpression", "LikeExpression",
                    "MathExpression", "RegexpExpression"} ->
         getUnknowns(arg.left) \o getUnknowns(arg.right)
    [] arg.cls = "CaseExpression" ->
         FlattenCases(arg.cases) \o Flatten(arg.else)
    [] arg.cls = "ExistsExpression" -> getUnknowns(arg.query)
    [] arg.cls = "FunctionExpression" -> Flatten(arg.parameters)
    [] arg.cls = "IsNullExpression" -> getUnknowns(arg.left)
    [] arg.cls = "ParameterExpression" -> getUnknowns(arg.expression)
    [] arg.cls = "QueryExpression" -> getUnknowns(arg.query)
    [] arg.cls = "Unknown" -> <<arg>>
    [] OTHER -> <<>>

\* two placeholders, told apart by what the source left in them
UnknownA == Unknown(Str(<<"A">>))
UnknownB == Unknown(Str(<<"B">>))

\* the clauses of two queries put together
Combine(p, q) ==
  [cls |-> "Query", select |-> p.select \o q.select, from |-> p.from \o q.from,
   where |-> p.where \o q.where, group |-> p.group \o q.group,
   having |-> p.having \o q.having, order |-> p.order \o q.order,
   limit |-> p.limit \o q.limit]

\* the value of params.subqueries[name] the placeholders are bound from
RawAB ==
  Object(<<[key |-> "a", value |-> "5"], [key |-> "b", value |-> "6"]>>)

\* part_001 line 50: const unknowns = getUnknowns(result)
Scan ==
  /\ pc = "scan"
  /\ unknowns' = Unknowns(getUnknowns(base))
  /\ pc' = "bind"
  /\ UNCHANGED <<subqueries, baseArg, callerParams, options, params,
                 allCompanions, depandCount, stack, cursor, base, applied,
                 error, result, variables, logged, calls, context, shortcuts,
                 queryDef>>

\* part_001 lines 51-59: the loop over the placeholders scanned
Bind ==
  /\ pc = "bind"
  /\ unknowns' = Unknowns(BindUnknowns(variables, RawAB, unknowns.value))
  /\ pc' = "done"
  /\ UNCHANGED <<subqueries, baseArg, callerParams, options, params,
                 allCompanions, depandCount, stack, cursor, base, applied,
                 error, result, variables, logged, calls, context, shortcuts,
                 queryDef>>

\* trees with placeholder A inside some expression at some place and
\* placeholder B at some place, under fragments with and without variables
InitScan ==
  /\ subqueries = EmptyCount
  /\ baseArg = BaseTemplate(NoLimit)
  /\ callerParams = EmptyParams
  /\ options = DefaultOptions
  /\ params = EmptyParams
  /\ allCompanions = <<>>
  /\ depandCount = EmptyCount
  /\ stack = <<>>
  /\ cursor = [attr |-> 1, idx |-> 1, array |-> <<>>]
  /\ pc = "scan"
  /\ \E e \in Wraps(UnknownA) \cup {RegexpExpression(ColumnExpression, UnknownA)} :
       \E p \in Places(e), q \in Places(UnknownB) :
         base = Combine(p, q)
  /\ applied = <<>>
  /\ error = NoError
  /\ result = NoResult
  /\ variables \in {<<>>, <<Variable("a", "7")>>, <<Hole, Variable("b", "7")>>,
                    <<Variable("b", "7"), Variable("a", "7")>>}
  /\ unknowns = NoUnknowns
  /\ logged = <<>>
  /\ calls = NoCalls
  /\ context = NoContext
  /\ shortcuts = NoShortcuts
  /\ queryDef = NoClone

NextScan == Scan \/ Bind

SpecScan == InitScan /\ [][NextScan]_vars

\* --------------------------------------------- QueryDef registration alone
MaxRegistered == 2    \* keys the registry holds

\* the source trees handed to the registration calls, told apart by limit
SourceArgs == {1, 2}

NameEmpty == <<"">>             \* the name ''
NameTrailing == <<"a", "">>     \* the name 'a:'
NameFieldA == <<"field", "a">>  \* the name 'field:a'

ValidNames == {NameA, NameAB, NameFieldA}
RegNames == {NameEmpty, NameTrailing} \cup ValidNames

\* the registration functions called: the generic one, whose prefix is '',
\* and two of the four that prefix their own name (table and groupBy differ
\* from field and orderBy in the prefix only)
RegKinds == {"subquery", "field", "orderBy"}

\* the leading `overwrite` argument: left out, or a boolean
Overwrites == {"none", "true", "false"}

Logged(msg, key) == [msg |-> msg, key |-> key]

\* line 102 `!name`, line 103 `name.endsWith(':')`
NotName(name) == name = NameEmpty
EndsWithColon(name) == Len(name) >= 2 /\ name[Len(name)] = ""

\* line 86-89: a leading boolean is dropped with a deprecation warning
Deprecated(funcName, overwrite) ==
  IF overwrite = "none" THEN <<>> ELSE <<Logged("deprecated", <<funcName>>)>>

\* the earlier QueryDef.field/table/...: an existing key is kept unless the
\* overwrite flag is given
CommonFuncEarlier(registry, funcName, overwrite, name, def) ==
  LET key == KeyOf(funcName, name) IN
  IF NotName(name)
  THEN [subqueries |-> registry, logged |-> <<>>,
        error |-> [kind |-> "Invalid name", keys |-> <<name>>]]
  ELSE IF overwrite # "true" /\ key \in DOMAIN registry
  THEN [subqueries |-> registry, logged |-> <<>>,
        error |-> [kind |-> "already registered", keys |-> <<key>>]]
  ELSE [subqueries |-> (key :> def) @@ registry,
        logged |-> <<Logged("registered", key)>>, error |-> NoError]

\* commonFunc(funcName, prefix)(...args): the registry, the log lines and
\* the error after the call
CommonFunc(registry, funcName, overwrite, name, def) ==
  LET key == KeyOf(funcName, name)
      dep == Deprecated(funcName, overwrite)
  IN
  IF NotName(name)
  THEN [subqueries |-> registry, logged |-> dep,
        error |-> [kind |-> "Missing name", keys |-> <<<<funcName>>>>]]
  ELSE IF EndsWithColon(name)
  THEN [subqueries |-> registry, logged |-> dep,
        error |-> [kind |-> "Invalid name", keys |-> <<name>>]]
  ELSE [subqueries |-> (key :> def) @@ registry,
        logged |-> dep
                   \o (IF key \in DOMAIN registry
                       THEN <<Logged("overwritten", key)>> ELSE <<>>)
                   \o <<Logged("registered", key)>>,
        error |-> NoError]

\* new SubqueryDef(arg, prerequisite) on the n-th source tree
NewDef(funcName, name, n) ==
  Def(KeyOf(funcName, name), ListPrerequisite(<<>>), ObjLimit(n))

\* queryDef.field / table / subquery / groupBy / orderBy (..., name, arg)
Call(funcName, overwrite, name, n) ==
  LET r == CommonFunc(subqueries, funcName, overwrite, name,
                      NewDef(funcName, name, n))
  IN /\ logged' = r.logged
     /\ error' = r.error
     /\ subqueries' = r.subqueries
     /\ Cardinality(DOMAIN r.subqueries) <= MaxRegistered
     /\ UNCHANGED <<baseArg, callerParams, options, params, allCompanions,
                    depandCount, stack, cursor, pc, base, applied, result,
                    variables, unknowns, calls, context, shortcuts, queryDef>>

Register ==
  \E funcName \in RegKinds, overwrite \in Overwrites, name \in RegNames,
     n \in SourceArgs :
    Call(funcName, overwrite, name, n)

\* a QueryDef fresh from its constructor
InitReg ==
  /\ subqueries = EmptyCount
  /\ baseArg = BaseTemplate(NoLimit)
  /\ callerParams = EmptyParams
  /\ options = DefaultOptions
  /\ Idle

NextReg == Register

SpecReg == InitReg /\ [][NextReg]_vars

\* --------------------------------------------------------------- clone alone
MaxAfter == 1    \* registrations made after clone()

\* part_001 lines 83-86: the loop of clone() over this.variables; the
\* destructuring of a hole throws a TypeError
RECURSIVE CloneVariables(_, _, _)
CloneVariables(vs, i, acc) ==
  IF i >= Len(vs) THEN [variables |-> acc, error |-> NoError]
  ELSE IF vs[i + 1].hole
  THEN [variables |-> acc, error |-> [kind |-> "TypeError", keys |-> <<>>]]
  ELSE CloneVariables(vs, i + 1,
                      SubqueryDefRegister(acc, vs[i + 1].name, i,
                                          vs[i + 1].default))

\* part_001 lines 78-88: SubqueryDef.clone()
SubqueryDefClone(def) ==
  LET r == CloneVariables(def.variables, 0, <<>>) IN
  [def |-> [arg |-> def.arg, prerequisite |-> def.prerequisite,
            variables |-> r.variables],
   error |-> r.error]

\* index.ts lines 575-581: QueryDef.clone()
QueryDefClone(registry) ==
  IF \E k \in DOMAIN registry : SubqueryDefClone(registry[k]).error # NoError
  THEN [subqueries |-> <<>>, error |-> [kind |-> "TypeError", keys |-> <<>>]]
  ELSE [subqueries |-> [k \in DOMAIN registry |-> SubqueryDefClone(registry[k]).def],
        error |-> NoError]

\* the registry of one QueryDef after a registration on the other one, were
\* the two the same object
OtherQueryDefShared(kept, changed) == changed

\* the registry of one QueryDef after a registration on the other one: the
\* clone has a subqueries object, SubqueryDefs and variable arrays of its own
OtherQueryDef(kept, changed) == kept

Clone ==
  /\ ~queryDef.made
  /\ error = NoError
  /\ LET r == QueryDefClone(subqueries) IN
     /\ error' = r.error
     /\ queryDef' = IF r.error = NoError
                    THEN [queryDef EXCEPT !.made = TRUE, !.subqueries = r.subqueries]
                    ELSE queryDef
  /\ UNCHANGED <<subqueries, baseArg, callerParams, options, params,
                 allCompanions, depandCount, stack, cursor, pc, base, applied,
                 result, variables, unknowns, logged, calls, context, shortcuts>>

\* the registry after field / subquery (name, arg) or
\* subqueries[key].register(name, i, { default }) on it
Registrations(registry) ==
  {CommonFunc(registry, funcName, "none", name, NewDef(funcName, name, 1)).subqueries :
     funcName \in {"subquery", "field"}, name \in {NameA, NameB}}
  \cup {[registry EXCEPT ![k].variables = SubqueryDefRegister(@, name, i, "1")] :
          k \in DOMAIN registry, name \in VarNames, i \in 0..MaxIndex}

\* a registration on the QueryDef cloned, after clone()
RegisterOnThis ==
  /\ queryDef.made
  /\ queryDef.after < MaxAfter
  /\ \E r \in Registrations(subqueries) :
       /\ r # subqueries
       /\ subqueries' = r
       /\ queryDef' = [queryDef EXCEPT !.after = @ + 1,
                                       !.subqueries = OtherQueryDef(@, r)]
  /\ UNCHANGED <<baseArg, callerParams, options, params, allCompanions,
                 depandCount, stack, cursor, pc, base, applied, error, result,
                 variables, unknowns, logged, calls, context, shortcuts>>

\* a registration on the clone
RegisterOnClone ==
  /\ queryDef.made
  /\ queryDef.after < MaxAfter
  /\ \E r \in Registrations(queryDef.subqueries) :
       /\ r # queryDef.subqueries
       /\ queryDef' = [queryDef EXCEPT !.after = @ + 1, !.subqueries = r]
       /\ subqueries' = OtherQueryDef(subqueries, r)
  /\ UNCHANGED <<baseArg, callerParams, options, params, allCompanions,
                 depandCount, stack, cursor, pc, base, applied, error, result,
                 variables, unknowns, logged, calls, context, shortcuts>>

\* the variables of the fragments of the QueryDef cloned: none, one, two,
\* and lists with a slot never registered
VariableLists ==
  {<<>>, <<Variable("a", "7")>>,
   <<Variable("a", "7"), Variable("b", "undefined")>>,
   <<Hole, Variable("b", "7")>>,
   <<Variable("a", "undefined"), Hole, Variable("b", "7")>>}

\* a QueryDef with one or two fragments, with and without prerequisite
InitClone ==
  /\ \E va \in VariableLists, vf \in VariableLists \cup {<<Hole>>},
        pre \in {<<>>, <<KeyOf("field", NameA)>>} :
       subqueries =
         (NameA :> [Def(NameA, ListPrerequisite(pre), NoLimit)
                      EXCEPT !.variables = va])
         @@ (IF vf = <<Hole>> THEN <<>>
             ELSE KeyOf("field", NameA) :>
                    [Def(KeyOf("field", NameA), ListPrerequisite(<<>>), NoLimit)
                       EXCEPT !.variables = vf])
  /\ baseArg = BaseTemplate(NoLimit)
  /\ callerParams = EmptyParams
  /\ options = DefaultOptions
  /\ Idle

NextClone == Clone \/ RegisterOnThis \/ RegisterOnClone

SpecClone == InitClone /\ [][NextClone]_vars

\* -------------------------------------------------------- useShortcuts alone
MaxCalls == 2    \* useShortcuts calls on one QueryDef

\* a descriptor: `form` tells whether it has a constant expression, an
\* expression function, a queryArg function or none of them; `reads` are
\* the names the function reads from `registered`, in order, and `throws`
\* tells whether it then throws an error of its own
Shortcut(type, name, prerequisite, form, reads, throws, registered) ==
  [type |-> type, name |-> name, prerequisite |-> prerequisite, form |-> form,
   reads |-> reads, throws |-> throws, registered |-> registered]

\* QueryDef.shortcuts (index.ts lines 19-26): the types that have a handler
\* among the types tried
ShortcutTypes == {"field", "subquery"}

\* the target of the Proxy is {}: it has the members of Object.prototype
NameConstructor == <<"constructor">>
Inherited == {NameConstructor}

\* line 277: !target[name] is false
HasExpression(target, name) == name \in DOMAIN target \/ name \in Inherited

\* regPrerequisites[name]
RegPrerequisite(regPrerequisites, name) ==
  IF name \in DOMAIN regPrerequisites THEN regPrerequisites[name]
  ELSE IF name \in Inherited
  THEN [form |-> "inherited", keys |-> <<>>, patch |-> <<>>]
  ELSE NoPrerequisite

\* utils.ts lines 219-284, array with array; a member of Object.prototype
\* taken for a prerequisite stays what it is
MergePrerequisite(left, right) ==
  IF left.form = "list" /\ right.form = "list"
  THEN ListPrerequisite(left.keys \o right.keys)
  ELSE [form |-> "inherited", keys |-> <<>>, patch |-> <<>>]

\* lines 282-286: left && right ? mergePrerequisite(left, right) : right || left
Finally(left, right) ==
  IF left.form # "undefined" /\ right.form # "undefined"
  THEN MergePrerequisite(left, right)
  ELSE IF right.form # "undefined" THEN right ELSE left

\* the reads of registered[...] an expression function makes, through the
\* get trap of lines 276-287
RECURSIVE Get(_, _)
Get(ctx, names) ==
  IF names = <<>> THEN [context |-> ctx, error |-> NoError]
  ELSE IF ~HasExpression(ctx.registered, Head(names))
  THEN [context |-> ctx,
        error |-> [kind |-> "not registered", keys |-> <<Head(names)>>]]
  ELSE Get([ctx EXCEPT !.prerequisite =
                         Finally(@, RegPrerequisite(ctx.regPrerequisites,
                                                    Head(names)))],
           Tail(names))

\* the function of a descriptor called with ctx.registered
CallWith(ctx, shortcut) ==
  LET r == Get(ctx, shortcut.reads) IN
  IF shortcut.form = "expression" THEN [context |-> ctx, error |-> NoError]
  ELSE IF r.error = NoError /\ shortcut.throws
  THEN [context |-> r.context, error |-> [kind |-> "thrown", keys |-> <<>>]]
  ELSE r

\* this.field(name, queryArg, ctx.prerequisite) and the like: commonFunc
\* takes an undefined prerequisite as []
RegisterWith(registry, funcName, name, prerequisite) ==
  CommonFunc(registry, funcName, "none", name,
             Def(KeyOf(funcName, name),
                 IF prerequisite.form = "undefined" THEN ListPrerequisite(<<>>)
                 ELSE prerequisite,
                 NoLimit))

\* part_005 lines 75-98
FieldShortcutFunc(registry, ctx, shortcut) ==
  LET r == CallWith(ctx, shortcut)
      store == shortcut.form \in {"expression", "function"} /\ shortcut.registered
      stored ==
        IF store
        THEN [r.context EXCEPT
                !.registered = (shortcut.name :> shortcut.name) @@ @,
                !.regPrerequisites =
                   IF r.context.prerequisite.form # "undefined"
                   THEN (shortcut.name :> r.context.prerequisite) @@ @
                   ELSE @]
        ELSE r.context
      reg == RegisterWith(registry, "field", shortcut.name, stored.prerequisite)
  IN
  IF shortcut.form = "none"
  THEN [subqueries |-> registry, context |-> ctx, error |-> NoError,
        logged |-> <<Logged("Invalid", KeyOf("field", shortcut.name))>>]
  ELSE IF r.error # NoError
  THEN [subqueries |-> registry, context |-> r.context, error |-> r.error,
        logged |-> <<>>]
  ELSE [subqueries |-> reg.subqueries, context |-> stored, error |-> reg.error,
        logged |-> (IF store THEN <<Logged("field registered", shortcut.name)>>
                    ELSE <<>>) \o reg.logged]

\* part_005 lines 117-157, for a descriptor without `unknowns`
SubqueryShortcutFunc(registry, ctx, shortcut) ==
  LET r == CallWith(ctx, shortcut)
      reg == RegisterWith(registry, "subquery", shortcut.name, r.context.prerequisite)
  IN
  IF shortcut.form \in {"none", "queryArg"}
  THEN [subqueries |-> registry, context |-> ctx, error |-> NoError,
        logged |-> <<Logged("Invalid", KeyOf("subquery", shortcut.name))>>]
  ELSE IF r.error # NoError
  THEN [subqueries |-> registry, context |-> r.context, error |-> r.error,
        logged |-> <<>>]
  ELSE [subqueries |-> reg.subqueries, context |-> r.context,
        error |-> reg.error, logged |-> reg.logged]

\* the rethrow for a descriptor that is not the one that failed
RethrowNext(e, shortcut) ==
  [kind |-> "Fail to register", keys |-> <<<<"next">>>>, message |-> e]

\* lines 298-302: `${e.message}. Fail to register ${type}:${name}`
Rethrow(e, shortcut) ==
  [kind |-> "Fail to register", keys |-> <<<<shortcut.type>> \o shortcut.name>>,
   message |-> e]

\* line 288: this.context || (this.context = { registered, ... })
Context(ctx) == IF ctx.set THEN ctx ELSE [NoContext EXCEPT !.set = TRUE]

\* the prerequisites the descriptors tried give
PrerequisiteP == ListPrerequisite(<<<<"p">>>>)
PrerequisiteQ == ListPrerequisite(<<<<"q">>>>)

\* the descriptors tried: fields a and b that store their expression, b
\* reading a; fields that read without storing; a sub-filter; a type
\* without handler; a name commonFunc rejects; a function that throws; a
\* field without expression or queryArg; a read of `constructor`
StoresA == Shortcut("field", NameA, PrerequisiteP, "expression", <<>>, FALSE, TRUE)
StoresB == Shortcut("field", NameB, NoPrerequisite, "function", <<NameA>>, FALSE, TRUE)
ReadsAB == Shortcut("field", NameC, PrerequisiteQ, "function", <<NameA, NameB>>, FALSE, FALSE)
KeepsA == Shortcut("field", NameA, NoPrerequisite, "expression", <<>>, FALSE, FALSE)
SubqueryB == Shortcut("subquery", NameB, NoPrerequisite, "function", <<NameB>>, FALSE, TRUE)
NoHandler == Shortcut("bogus", NameA, NoPrerequisite, "expression", <<>>, FALSE, TRUE)
Trailing == Shortcut("field", NameTrailing, NoPrerequisite, "expression", <<>>, FALSE, TRUE)
Throws == Shortcut("field", NameC, NoPrerequisite, "function", <<>>, TRUE, TRUE)
QueryArgB == Shortcut("field", NameC, PrerequisiteQ, "queryArg", <<NameB>>, FALSE, FALSE)
NoForm == Shortcut("field", NameC, NoPrerequisite, "none", <<>>, FALSE, FALSE)
ReadsConstructor ==
  Shortcut("field", NameC, NoPrerequisite, "function", <<NameConstructor>>, FALSE, FALSE)

\* the lists a caller passes to useShortcuts
ShortcutLists ==
  {<<>>, <<StoresA, StoresB>>, <<StoresB, StoresA>>,
   <<StoresA, NoHandler, StoresB, ReadsAB>>, <<NoHandler, KeepsA, StoresB>>,
   <<StoresA, Throws, StoresB>>, <<ReadsAB>>, <<StoresB>>,
   <<NoHandler, StoresA, ReadsAB, StoresB>>,
   <<StoresA, StoresB, SubqueryB>>, <<Trailing, StoresB>>, <<QueryArgB>>,
   <<NoForm, StoresA>>, <<ReadsConstructor>>, <<SubqueryB>>,
   <<StoresA, ReadsAB>>}

\* line 273: useShortcuts(shortcuts) is called; the log goes on from what
\* the earlier calls wrote
UseShortcuts ==
  /\ ~shortcuts.running
  /\ shortcuts.call < MaxCalls
  /\ \E list \in ShortcutLists :
       shortcuts' = [call |-> shortcuts.call + 1, running |-> TRUE,
                     list |-> list, next |-> 1, mark |-> Len(logged)]
  /\ context' = Context(context)
  /\ error' = NoError
  /\ UNCHANGED <<subqueries, baseArg, callerParams, options, params,
                 allCompanions, depandCount, stack, cursor, pc, base, applied,
                 result, variables, unknowns, logged, calls, queryDef>>

\* lines 290-306: one turn of the loop
ShortcutTurn ==
  /\ shortcuts.running
  /\ shortcuts.next <= Len(shortcuts.list)
  /\ LET shortcut == shortcuts.list[shortcuts.next]
         ctx == [context EXCEPT !.prerequisite = shortcut.prerequisite]
         r == IF shortcut.type = "field"
              THEN FieldShortcutFunc(subqueries, ctx, shortcut)
              ELSE SubqueryShortcutFunc(subqueries, ctx, shortcut)
     IN
     IF shortcut.type \notin ShortcutTypes
     THEN /\ logged' = Append(logged, Logged("Invalid shortcut type",
                                             <<shortcut.type>>))
          /\ context' = ctx
          /\ shortcuts' = [shortcuts EXCEPT !.next = @ + 1]
          /\ UNCHANGED <<subqueries, error>>
     ELSE /\ subqueries' = r.subqueries
          /\ context' = r.context
          /\ logged' = logged \o r.logged
          /\ IF r.error = NoError
             THEN /\ shortcuts' = [shortcuts EXCEPT !.next = @ + 1]
                  /\ UNCHANGED error
             ELSE /\ shortcuts' = [shortcuts EXCEPT !.running = FALSE]
                  /\ error' = Rethrow(r.error, shortcut)
  /\ UNCHANGED <<baseArg, callerParams, options, params, allCompanions,
                 depandCount, stack, cursor, pc, base, applied, result,
                 variables, unknowns, calls, queryDef>>

\* line 308: return this
ShortcutsReturn ==
  /\ shortcuts.running
  /\ shortcuts.next > Len(shortcuts.list)
  /\ shortcuts' = [shortcuts EXCEPT !.running = FALSE]
  /\ UNCHANGED <<subqueries, baseArg, callerParams, options, params,
                 allCompanions, depandCount, stack, cursor, pc, base, applied,
                 error, result, variables, unknowns, logged, calls, context,
                 queryDef>>

InitShortcuts ==
  /\ subqueries = EmptyCount
  /\ baseArg = BaseTemplate(NoLimit)
  /\ callerParams = EmptyParams
  /\ options = DefaultOptions
  /\ Idle

NextShortcuts == UseShortcuts \/ ShortcutTurn \/ ShortcutsReturn

SpecShortcuts == InitShortcuts /\ [][NextShortcuts]_vars

TypeOK ==
  /\ pc \in {"start", "closure", "base", "fields", "tables", "subqueries",
             "groupBy", "sorting", "limit", "done", "failed"}
  /\ result.returned <=> pc = "done"
  /\ (error # NoError) <=> pc = "failed"

\* ------------------------------------------------------------ properties
\* the keys of the register() calls in progress, outermost first
Path == [i \in 1..Len(stack) |-> stack[i].key]

Walking == pc = "closure" /\ stack # <<>>

\* list-form prerequisite of a registered key
ListKeys(k) ==
  IF subqueries[k].prerequisite.form = "list"
  THEN subqueries[k].prerequisite.keys ELSE <<>>

RECURSIVE ReachFrom(_, _)
ReachFrom(S, n) ==
  IF n = 0 THEN S
  ELSE ReachFrom(S \cup UNION {Range(ListKeys(k)) : k \in S \cap DOMAIN subqueries},
                 n - 1)

Acyclic ==
  \A k \in DOMAIN subqueries :
    k \notin ReachFrom(Range(ListKeys(k)), Cardinality(DOMAIN subqueries))

FullyRegistered ==
  \A k \in DOMAIN subqueries : Range(ListKeys(k)) \subseteq DOMAIN subqueries

NoDuplicates(s) == \A i, j \in 1..Len(s) : s[i] = s[j] => i = j

\* C1: when the prerequisite key the walk is about to visit is already on
\* the recursion path, apply() fails with the 'Recursive dependency' error
\* that lists the path in visit order followed by the repeated key, and
\* returns no tree.
C1_RecursiveDependency ==
  [][(Walking /\ Contains(Path, NextKey))
       => /\ pc' = "failed"
          /\ error' = [kind |-> "Recursive dependency",
                       keys |-> Append(Path, NextKey)]
          /\ result' = NoResult]_vars

\* a two-node cycle was reported: a -> b -> a
C1_Witness ==
  /\ pc = "failed"
  /\ error.kind = "Recursive dependency"
  /\ Len(error.keys) = 3
  /\ error.keys[1] = error.keys[3]
  /\ error.keys[1] # error.keys[2]

\* C2: with an acyclic, fully registered list-form prerequisite graph the
\* closure walk of apply() comes to its end, never raises the recursive
\* dependency error (nor a missing companion), and records every key once in
\* allCompanions however many paths reach it.
C2_AcyclicTerminates ==
  /\ [](Acyclic /\ FullyRegistered
          => error = NoError /\ NoDuplicates(allCompanions))
  /\ (Acyclic /\ FullyRegistered) => <>(pc = "base")

\* a prerequisite was reached through two paths (its depend count is the sum
\* of two visits) and the walk is over
C2_Witness ==
  /\ Acyclic /\ FullyRegistered
  /\ pc = "base"
  /\ \E k \in DOMAIN depandCount : depandCount[k] >= 3
  /\ Len(allCompanions) = 3

\* C3 as stated: whenever a visited fragment's list names a key that is not
\* registered, apply() fails with "Companion '<key>' not found".
C3_AsStated ==
  \A k \in Range(allCompanions) :
    \A m \in Range(ListKeys(k)) :
      (m \notin DOMAIN subqueries /\ pc # "closure")
        => (pc = "failed" /\ error = [kind |-> "Companion not found",
                                      keys |-> <<m>>])

\* C3 (amended): when the walk reaches a key, named in a visited fragment's
\* list, that is not registered, apply() fails with "Companion '<key>' not
\* found" and returns no tree; a visited fragment whose list names an
\* unregistered key always makes apply() fail; an unregistered name at the
\* top level of params raises nothing.
C3_CompanionNotFound ==
  /\ [][(Walking /\ NextKey \notin DOMAIN subqueries)
          => /\ pc' = "failed"
             /\ error' = [kind |-> "Companion not found", keys |-> <<NextKey>>]
             /\ result' = NoResult]_vars
  /\ [][(pc = "closure" /\ stack = <<>> /\ NextEntry.attr <= 5
         /\ KeyOf(AttrKind[NextEntry.attr],
                  NextEntry.array[NextEntry.idx].name) \notin DOMAIN subqueries)
          => (pc' = "closure" /\ error' = NoError /\ stack' = <<>>)]_vars
  /\ [](\A k \in Range(allCompanions) :
          (~Range(ListKeys(k)) \subseteq DOMAIN subqueries /\ pc # "closure")
            => (pc = "failed" /\ ~result.returned))

\* the missing companion c was reached from a fragment other than the one
\* the caller named
C3_Witness ==
  /\ pc = "failed"
  /\ error.kind = "Companion not found"
  /\ Len(stack) >= 2
  /\ error.keys[1] \notin DOMAIN subqueries

\* a string or {key, direction} entry of the list names the fragment
NamedIn(list, name) ==
  \E i \in 1..Len(list) : list[i].t \in {"string", "key"} /\ list[i].name = name

Occurrences(list, name) ==
  Cardinality({i \in 1..Len(list) :
                 list[i].t \in {"string", "key"} /\ list[i].name = name})

\* the working params name the fragment registered under the key
KeyInParams(p, key) ==
  CASE key[1] = "field"   -> NamedIn(p.fields, Tail(key))
    [] key[1] = "table"   -> NamedIn(p.tables, Tail(key))
    [] key[1] = "groupBy" -> NamedIn(p.groupBy, Tail(key))
    [] key[1] = "orderBy" -> NamedIn(p.sorting, Tail(key))
    [] OTHER              -> ObjHas(p.subqueries, key)

WasApplied(key) == \E i \in 1..Len(applied) : applied[i].key = key

\* C4: every list-form prerequisite key of every fragment an apply() call
\* applies is in the working params and is applied in the same call.
C4_AsStated ==
  pc = "done" =>
    \A i \in 1..Len(applied) :
      \A m \in Range(ListKeys(applied[i].key)) :
        KeyInParams(params, m) /\ WasApplied(m)

\* C5: after the companions are merged into params no registered name occurs
\* twice in a working list, and no fragment is applied twice in one call.
C5_AsStated ==
  /\ pc \in {"base", "fields", "tables", "subqueries", "groupBy", "sorting",
             "limit", "done"}
       => \A k \in DOMAIN subqueries :
            /\ k[1] = "field"   => Occurrences(params.fields, Tail(k)) <= 1
            /\ k[1] = "table"   => Occurrences(params.tables, Tail(k)) <= 1
            /\ k[1] = "groupBy" => Occurrences(params.groupBy, Tail(k)) <= 1
            /\ k[1] = "orderBy" => Occurrences(params.sorting, Tail(k)) <= 1
  /\ pc = "done" => NoDuplicates(applied)

\* C6: of two applied fragments of one kind, the one the other lists as a
\* prerequisite is applied first.
C6_AsStated ==
  pc = "done" =>
    \A j \in 1..Len(applied) :
      \A i \in 1..Len(applied) :
        (/\ applied[i].step = applied[j].step
         /\ applied[i].key # applied[j].key
         /\ applied[i].key \in Range(ListKeys(applied[j].key)))
          => \E h \in 1..(j - 1) : applied[h] = applied[i]

\* the registry keys the entries of a params patch name
PatchKeys(patch) ==
  {<<"field">> \o e.name : e \in Range(patch.fields)}
  \cup {<<"table">> \o e.name : e \in Range(patch.tables)}
  \cup {<<"groupBy">> \o e.name : e \in Range(patch.groupBy)}
  \cup {<<"orderBy">> \o e.name : e \in Range(patch.sorting)}
  \cup {e.key : e \in Range(patch.subqueries)}

\* C7: the params patch of a visited fragment (object form, or returned by a
\* function prerequisite) is in the working params and the fragments it names
\* are applied.
C7_AsStated ==
  pc = "done" =>
    \A k \in Range(allCompanions) :
      subqueries[k].prerequisite.form \in {"object", "fnObject"}
        => \A m \in PatchKeys(subqueries[k].prerequisite.patch) :
             /\ KeyInParams(params, m)
             /\ m \in DOMAIN subqueries => WasApplied(m)

\* C8: the returned tree has the caller's limit, a bare number n as
\* {$limit: n}, whatever the template or the fragments contribute.
C8_AsStated ==
  (result.returned /\ callerParams.limit.t # "undefined")
    => result.tree.limit =
         (IF callerParams.limit.t = "number"
          THEN ObjLimit(callerParams.limit.n) ELSE callerParams.limit)

\* the limit of the first applied sub-filter fragment whose source has one
RECURSIVE FirstLimit(_)
FirstLimit(log) ==
  IF log = <<>> THEN NoLimit
  ELSE IF Head(log).step = "subquery"
          /\ subqueries[Head(log).key].arg.limit.t # "undefined"
       THEN subqueries[Head(log).key].arg.limit
       ELSE FirstLimit(Tail(log))

\* C9: without params.limit the returned tree has the template's limit if
\* there is one, else the limit of the first applied sub-filter fragment
\* that has one; later fragments never replace it.
C9_FirstLimitWins ==
  (result.returned /\ callerParams.limit.t = "undefined")
    => result.tree.limit =
         (IF baseArg.limit.t # "undefined" THEN baseArg.limit
          ELSE FirstLimit(applied))

\* two sub-filter fragments with different limits were applied to a template
\* without one, and the tree has the limit of the first
C9_Witness ==
  /\ result.returned
  /\ callerParams.limit.t = "undefined"
  /\ baseArg.limit.t = "undefined"
  /\ \E i, j \in 1..Len(applied) :
       /\ i < j
       /\ applied[i].step = "subquery" /\ applied[j].step = "subquery"
       /\ subqueries[applied[i].key].arg.limit.t = "object"
       /\ subqueries[applied[j].key].arg.limit.t = "object"
       /\ subqueries[applied[i].key].arg.limit # subqueries[applied[j].key].arg.limit
       /\ result.tree.limit = subqueries[applied[i].key].arg.limit

\* the value register() was given for a variable, null when it was given none
OwnDefault(v) == IF v.default = "undefined" THEN "null" ELSE v.default

Registered == {i \in 1..Len(variables) : ~variables[i].hole}

\* C10: default is true when no variable is registered; otherwise it is an
\* object with exactly the registered names, each mapped to the default its
\* variable was registered with (null when it had none).
C10_AsStated ==
  LET d == SubqueryDefDefault(variables) IN
  IF Registered = {} THEN d = TrueVal
  ELSE /\ d.k = "object"
       /\ {d.obj[j].key : j \in 1..Len(d.obj)} = {variables[i].name : i \in Registered}
       /\ \A i \in Registered :
            (\A h \in Registered : variables[h].name = variables[i].name => h = i)
              => \E j \in 1..Len(d.obj) :
                   /\ d.obj[j].key = variables[i].name
                   /\ d.obj[j].value = OwnDefault(variables[i])

\* what the caller put under params.subqueries[name] of the named application
RawOf(p) == ObjGet(p.subqueries, NameA)

\* the variable registered at scan position i, if any
HasVariable(i) == i <= Len(variables) /\ ~variables[i].hole

UniqueName(i) ==
  \A h \in Registered : variables[h].name = variables[i].name => h = i

\* C11: apply(name, params) sets the placeholder at scan position i to
\* raw[variable.name] when raw is an object with that key, to the default the
\* variable at index i was registered with (null when it had none) when raw
\* is true or omits the key, and leaves it as the source produced it when no
\* variable is registered at index i.
C11_AsStated ==
  [][ApplyNamed =>
       \A i \in 1..Len(unknowns'.value) :
         LET raw == RawOf(callerParams') IN
         IF HasVariable(i)
         THEN UniqueName(i) =>
                unknowns'.value[i] =
                  (IF raw.k = "object" /\ ObjHas(raw.obj, variables[i].name)
                   THEN PropertyOf(raw, variables[i].name)
                   ELSE OwnDefault(variables[i]))
         ELSE unknowns'.value[i] = "src"]_vars

\* the same for variables registered with a truthy default or with none
C11_TruthyDefaults ==
  [][ApplyNamed =>
       \A i \in 1..Len(unknowns'.value) :
         LET raw == RawOf(callerParams') IN
         IF HasVariable(i)
         THEN (/\ UniqueName(i)
               /\ variables[i].default \in {"undefined", "1", "x"}) =>
                unknowns'.value[i] =
                  (IF raw.k = "object" /\ ObjHas(raw.obj, variables[i].name)
                   THEN PropertyOf(raw, variables[i].name)
                   ELSE OwnDefault(variables[i]))
         ELSE unknowns'.value[i] = "src"]_vars

\* the result columns of the field fragments the entries name, in order
RECURSIVE SelectOf(_)
SelectOf(entries) ==
  IF entries = <<>> THEN <<>>
  ELSE DummyQuery(subqueries[KeyOf("field", Head(entries).name)].arg).select
       \o SelectOf(Tail(entries))

\* params.fields is a list of distinct names of registered field fragments
\* that have no prerequisite
PlainFields(fs) ==
  /\ fs # <<>>
  /\ Distinct(fs)
  /\ \A i \in 1..Len(fs) :
       /\ fs[i].t = "string"
       /\ KeyOf("field", fs[i].name) \in DOMAIN subqueries
       /\ subqueries[KeyOf("field", fs[i].name)].prerequisite
            = ListPrerequisite(<<>>)

\* C12: for a params.fields list of distinct registered field fragments
\* without prerequisites (and nothing else applied), the select list of the
\* returned tree is the fragments' result columns in the caller's order.
C12_AsStated ==
  (/\ result.returned
   /\ PlainFields(callerParams.fields)
   /\ \A i \in 1..Len(applied) : applied[i].step = "field")
    => result.tree.select = SelectOf(callerParams.fields)

\* the same for names that do not hold the ':' delimiter
C12_PlainNames ==
  (/\ result.returned
   /\ PlainFields(callerParams.fields)
   /\ \A i \in 1..Len(callerParams.fields) : Len(callerParams.fields[i].name) = 1
   /\ \A i \in 1..Len(applied) : applied[i].step = "field")
    => result.tree.select = SelectOf(callerParams.fields)

\* the top-level name has no fragment of the kind of its list
Unregistered(kind, e) ==
  e.t \in {"string", "key"} /\ KeyOf(kind, e.name) \notin DOMAIN subqueries

\* the direction an entry of params.sorting carries, ascending when none
DirectionOf(e) == IF e.t = "key" /\ e.direction # "" THEN e.direction ELSE "ASC"

\* C13: a top-level name without a registered fragment never makes apply()
\* fail (a failure needs a registered fragment the caller named), and in the
\* returned tree an unregistered field name is a plain column, or nothing
\* under skipDefFields; an unregistered table name adds no table; an
\* unregistered groupBy name is a plain column group expression; an
\* unregistered sort key is an order term on that column, ascending unless
\* the entry carries a direction.  When nothing registered is applied the
\* clauses are exactly the template's with these fallbacks added in order.
C13_Fallbacks ==
  LET p == callerParams
      t == result.tree
      Cols(es) == [i \in 1..Len(es) |-> Col(es[i].name)]
      Terms(es) == [i \in 1..Len(es) |-> OrderBy(Col(es[i].name), DirectionOf(es[i]))]
  IN
  /\ pc = "failed" => \E k \in DOMAIN subqueries : KeyInParams(p, k)
  /\ result.returned =>
       /\ \A i \in 1..Len(p.fields) :
            (Unregistered("field", p.fields[i]) /\ ~options.skipDefFields)
              => Contains(t.select, Col(p.fields[i].name))
       /\ \A i \in 1..Len(p.tables) :
            Unregistered("table", p.tables[i])
              => /\ ~HasTable(t.from, p.tables[i].name)
                 /\ ~HasTable(t.from, KeyOf("table", p.tables[i].name))
       /\ \A i \in 1..Len(p.groupBy) :
            Unregistered("groupBy", p.groupBy[i])
              => Contains(t.group.expressions, Col(p.groupBy[i].name))
       /\ \A i \in 1..Len(p.sorting) :
            Unregistered("orderBy", p.sorting[i])
              => Contains(t.order, OrderBy(Col(p.sorting[i].name),
                                           DirectionOf(p.sorting[i])))
  /\ (result.returned /\ applied = <<>> /\ Distinct(p.fields))
       => /\ t.select = (IF p.fields = <<>> THEN DummyQuery(baseArg).select
                         ELSE IF options.skipDefFields THEN <<>>
                         ELSE Cols(p.fields))
          /\ t.from = baseArg.from
          /\ t.where = baseArg.where
          /\ t.group.expressions = baseArg.group.expressions \o Cols(p.groupBy)
          /\ t.order = baseArg.order \o Terms(p.sorting)

\* a call that named a registered sort key and an unregistered one with a
\* direction has returned
C13_Witness ==
  /\ result.returned
  /\ Len(callerParams.sorting) = 2
  /\ \E i, j \in 1..2 :
       /\ Unregistered("orderBy", callerParams.sorting[i])
       /\ callerParams.sorting[i].t = "key"
       /\ ~Unregistered("orderBy", callerParams.sorting[j])

StatedTerms(e) ==
  LET key == KeyOf("orderBy", e.name)
      own == DummyQuery(subqueries[key].arg).order
  IN IF key \notin DOMAIN subqueries
     THEN <<OrderBy(Col(e.name), DirectionOf(e))>>
     ELSE IF e.t = "key" /\ e.direction # "" /\ Len(own) = 1
     THEN <<[own[1] EXCEPT !.order = e.direction]>>
     ELSE own

RECURSIVE StatedOrder(_)
StatedOrder(entries) ==
  IF entries = <<>> THEN <<>>
  ELSE StatedTerms(Head(entries)) \o StatedOrder(Tail(entries))

\* C15: a registered orderBy fragment's terms keep their own direction unless
\* the sort entry carries an explicit direction and the fragment produced
\* exactly one term (only sort entries contributing order terms).
C15_AsStated ==
  (/\ result.returned
   /\ \A i \in 1..Len(applied) : applied[i].step = "orderBy")
    => result.tree.order = baseArg.order \o StatedOrder(params.sorting)

\* the kind and name are those of a key the registry holds
HoldsKey(funcName, name) == KeyOf(funcName, name) \in DOMAIN subqueries

PairsOf(key) ==
  {pair \in RegKinds \X ValidNames : KeyOf(pair[1], pair[2]) = key}

\* C17 as the specification states it: every key of the registry is the key
\* of exactly one kind and name, and the kind and name apply() recovers by
\* splitting the key on ':' are that pair
C17_AsStated ==
  \A key \in DOMAIN subqueries :
    PairsOf(key) = {<<CompanionType(key), CompanionName(key)>>}

\* the part of C17 the registration calls do keep: a call with a missing
\* name or a name ending in ':' fails and leaves the registry as it was
C17_RejectedNames ==
  [][\A funcName \in RegKinds, name \in {NameEmpty, NameTrailing},
        overwrite \in Overwrites, n \in SourceArgs :
       Call(funcName, overwrite, name, n) =>
         error' # NoError /\ subqueries' = subqueries]_vars

OutcomeOf(l) == [set |-> TRUE, error |-> l.error, result |-> l.result]

RECURSIVE StatedGroups(_)
StatedGroups(entries) ==
  IF entries = <<>> THEN <<>>
  ELSE LET g == Head(entries)
           key == KeyOf("groupBy", g.name)
       IN (IF key \in DOMAIN subqueries
           THEN IF subqueries[key].arg.group.present
                THEN subqueries[key].arg.group.expressions ELSE <<>>
           ELSE <<Col(g.name)>>)
          \o StatedGroups(Tail(entries))

\* a sorting list names a registered orderBy fragment without order clause
NamesNoOrder(entries) ==
  \E i \in 1..Len(entries) :
    /\ KeyOf("orderBy", entries[i].name) \in DOMAIN subqueries
    /\ ~subqueries[KeyOf("orderBy", entries[i].name)].arg.hasOrder

\* C21: the sorting step fails with 'No order by expressions returned' when
\* the sorting list names a registered orderBy fragment that has no order
\* clause, and apply() then never returns a tree; the groupBy step never
\* fails: a registered groupBy fragment without group clause adds nothing
\* to the group-by expressions and apply() goes on to the sorting step
C21_NoClause ==
  /\ [][Sorting =>
          IF NamesNoOrder(params.sorting)
          THEN /\ pc' = "failed"
               /\ error'.kind = "No order by expressions returned"
               /\ ~result'.returned
          ELSE pc' = "limit" /\ error' = NoError]_vars
  /\ [][GroupBy =>
          /\ pc' = "sorting"
          /\ error' = NoError
          /\ params.groupBy # <<>> =>
               base'.group.expressions =
                 base.group.expressions \o StatedGroups(params.groupBy)]_vars
  /\ [](pc = "failed" => ~result.returned)

\* apply() has failed on an orderBy fragment without order clause, after its
\* groupBy step went over a groupBy fragment without group clause
C21_Witness ==
  /\ pc = "failed"
  /\ error = [kind |-> "No order by expressions returned",
              keys |-> <<KeyOf("orderBy", NameA)>>]
  /\ Contains(applied, Applied("groupBy", KeyOf("groupBy", NameA)))
  /\ ~subqueries[KeyOf("groupBy", NameA)].arg.group.present
  /\ base.group = Group(<<>>, JsArray(<<>>))

\* the from-clause the specification gives for merging the entries of an
\* addition into a base: entries are keyed by table name, or by alias when
\* the table is a nested query
RECURSIVE StatedMergeFrom(_, _)
StatedMergeFrom(bfrom, sfrom) ==
  IF sfrom = <<>> THEN bfrom
  ELSE LET t == Head(sfrom) IN
       StatedMergeFrom(
         IF ~HasTable(bfrom, TableName(t)) THEN Append(bfrom, t)
         ELSE LET e == CHOOSE i \in 1..Len(bfrom) :
                         /\ TableName(bfrom[i]) = TableName(t)
                         /\ \A j \in 1..(i - 1) : TableName(bfrom[j]) # TableName(t)
              IN [bfrom EXCEPT ![e].joinClauses = @ \o t.joinClauses],
         Tail(sfrom))

\* the same over the fragments merged whole or by their from-clause, in the
\* order the log of applied fragments gives
RECURSIVE StatedFrom(_, _)
StatedFrom(from, log) ==
  IF log = <<>> THEN from
  ELSE StatedFrom(
         IF Head(log).step \in {"table", "subquery"}
         THEN StatedMergeFrom(from, subqueries[Head(log).key].arg.from)
         ELSE from,
         Tail(log))

OnePerTable(from) ==
  \A i, j \in 1..Len(from) : TableName(from[i]) = TableName(from[j]) => i = j

AfterMerges == pc \in {"groupBy", "sorting", "limit", "done"}

\* C22 as the specification states it: once the table and sub-filter
\* fragments are merged, the from-clause holds the template's entries and
\* those of the fragments, an entry whose table name or alias was there
\* already having given only its join clauses, appended in order to the
\* entry that was there; so no name or alias is in it twice
C22_AsStated ==
  AfterMerges =>
    /\ base.from = StatedFrom(DummyQuery(baseArg).from, applied)
    /\ OnePerTable(base.from)

\* the part of C22 that holds: the same, when no fragment merged brings a
\* nested-query table
C22_PlainTables ==
  AfterMerges
  /\ (\A i \in 1..Len(applied) :
        applied[i].step \in {"table", "subquery"} =>
          \A k \in 1..Len(subqueries[applied[i].key].arg.from) :
            ~subqueries[applied[i].key].arg.from[k].nested)
  => /\ base.from = StatedFrom(DummyQuery(baseArg).from, applied)
     /\ OnePerTable(base.from)

\* the where-conditions of the fragments merged, in merge order; the where
\* clause of one fragment counts as one condition
RECURSIVE MergedWheres(_)
MergedWheres(log) ==
  IF log = <<>> THEN <<>>
  ELSE (IF /\ Head(log).step \in {"table", "subquery"}
           /\ subqueries[Head(log).key].arg.where.cls # "none"
        THEN <<subqueries[Head(log).key].arg.where>> ELSE <<>>)
       \o MergedWheres(Tail(log))

TemplateWhere ==
  IF baseArg.where.cls = "none" THEN <<>> ELSE <<baseArg.where>>

\* C23 as the specification states it: once one or more fragments with a
\* where clause are merged, the where clause of the tree is one AND group
\* whose members are the template's condition and the fragments'
\* conditions in merge order, none of them an AND group made by a merge
C23_AsStated ==
  AfterMerges /\ MergedWheres(applied) # <<>> =>
    base.where = AndExpressions(TemplateWhere \o MergedWheres(applied))

\* the part of C23 that holds: the same after exactly one such merge
C23_OneMerge ==
  AfterMerges /\ Len(MergedWheres(applied)) = 1 =>
    base.where = AndExpressions(TemplateWhere \o MergedWheres(applied))

\* the having-conditions brought by the fragments merged whole and by the
\* groupBy fragments, in the order they were applied
RECURSIVE AppliedHavings(_)
AppliedHavings(log) ==
  IF log = <<>> THEN <<>>
  ELSE (IF /\ Head(log).step \in {"subquery", "groupBy"}
           /\ subqueries[Head(log).key].arg.group.present
           /\ subqueries[Head(log).key].arg.group.having.cls # "none"
        THEN <<subqueries[Head(log).key].arg.group.having>> ELSE <<>>)
       \o AppliedHavings(Tail(log))

TemplateHaving ==
  IF baseArg.group.present /\ baseArg.group.having.cls # "none"
  THEN <<baseArg.group.having>> ELSE <<>>

AfterGroupBy == pc \in {"sorting", "limit", "done"} /\ params.groupBy # <<>>

\* C24 as the specification states it: after the groupBy step over a
\* non-empty params.groupBy the having part of the group-by clause is absent
\* when nothing brought a having-condition, the condition itself when one
\* was brought, and one AND group of them when several were
C24_AsStated ==
  AfterGroupBy =>
    LET hs == TemplateHaving \o AppliedHavings(applied) IN
    base.group.having =
      IF hs = <<>> THEN NoExpr
      ELSE IF Len(hs) = 1 THEN hs[1] ELSE AndExpressions(hs)

\* what the step leaves instead, when no earlier merge brought a
\* having-condition: the list of the conditions, empty when there is none
C24_HavingList ==
  AfterGroupBy
  /\ (\A i \in 1..Len(applied) :
        applied[i].step = "subquery" =>
          ~subqueries[applied[i].key].arg.group.present)
  => base.group.having = JsArray(TemplateHaving \o AppliedHavings(applied))

\* the columns the fields step makes of the entries of params.fields, in
\* order: those of the field fragment an entry names, without '*', and the
\* column of its own name otherwise (none under skipDefFields)
RECURSIVE FieldColumns(_)
FieldColumns(entries) ==
  IF entries = <<>> THEN <<>>
  ELSE LET f == Head(entries)
           key == KeyOf("field", f.name)
       IN (IF f.t = "string" /\ key \in DOMAIN subqueries
           THEN Filter(subqueries[key].arg.select, Star)
           ELSE IF f.t = "string" /\ options.skipDefFields THEN <<>>
           ELSE <<Col(f.name)>>)
          \o FieldColumns(Tail(entries))

\* the select columns of the sub-filter fragments merged, in merge order
RECURSIVE MergedSelects(_)
MergedSelects(log) ==
  IF log = <<>> THEN <<>>
  ELSE (IF Head(log).step = "subquery"
        THEN Filter(subqueries[Head(log).key].arg.select, Star) ELSE <<>>)
       \o MergedSelects(Tail(log))

\* C30: once the fields step and the merges of apply() are done, the select
\* list of the tree is, when the working params.fields is not empty, the
\* columns made of its entries followed by the select columns of the merged
\* sub-filters, with no column of the template; when it is empty, the
\* template's columns other than '*' come first instead
C30_SelectOfFields ==
  AfterMerges =>
    base.select =
      (IF params.fields = <<>> THEN Filter(baseArg.select, Star)
       ELSE FieldColumns(params.fields))
      \o MergedSelects(applied)

\* a call with fields over a template that has columns of its own, beside
\* a merged sub-filter that brings a column
C30_Witness ==
  /\ pc = "done"
  /\ params.fields # <<>>
  /\ Filter(baseArg.select, Star) # <<>>
  /\ FieldColumns(params.fields) # <<>>
  /\ MergedSelects(applied) # <<>>

\* the fields of a node that hold one node, and those that hold a list
NodeFields == {"left", "right", "start", "end", "expression", "when", "then", "query"}
ListFields ==
  {"expressions", "parameters", "cases", "else", "select", "from", "where",
   "group", "having", "order", "limit", "table", "joinClauses", "on"}

\* a tree with the string right of every REGEXP escaped, wherever the
\* REGEXP stands, but for what lies below a node of a class in `skip`
RECURSIVE EscapedBut(_, _)
EscapedBut(x, skip) ==
  IF "cls" \in DOMAIN x /\ x.cls \in skip THEN x
  ELSE [f \in DOMAIN x |->
          IF /\ f = "right" /\ x.cls = "RegexpExpression"
             /\ x[f].cls \in {"string", "Value", "Unknown"}
          THEN IF x[f].value.t = "string"
               THEN [x[f] EXCEPT !.value.s = escapeRegex(@)] ELSE x[f]
          ELSE IF f \in NodeFields THEN EscapedBut(x[f], skip)
          ELSE IF f \in ListFields
               THEN [i \in 1..Len(x[f]) |-> EscapedBut(x[f][i], skip)]
          ELSE x[f]]

\* C25 as the specification states it: the processor escapes the string,
\* literal or bound placeholder, right of every regex-match expression of
\* the tree, nested sub-queries included, and changes nothing else
C25_AsStated ==
  pc = "done" => result.tree = EscapedBut(base, {})

\* the part of C25 that holds: the same for everything that is not below
\* an EXISTS expression
C25_ButExists ==
  pc = "done" => result.tree = EscapedBut(base, {"ExistsExpression"})

\* the fields of a node in the order they are written in a query
FieldOrder ==
  <<"select", "from", "table", "joinClauses", "on", "where", "group",
    "having", "order", "left", "start", "end", "right", "expressions",
    "cases", "when", "then", "else", "parameters", "expression", "query">>

\* the placeholders of a tree in the order they are written, but for what
\* lies in a field of `skip`
RECURSIVE PlaceholdersBut(_, _), PlaceholdersIn(_, _, _), PlaceholdersOf(_, _)
PlaceholdersBut(x, skip) ==
  IF "cls" \in DOMAIN x /\ x.cls = "Unknown" THEN <<x>>
  ELSE PlaceholdersIn(x, FieldOrder, skip)

PlaceholdersIn(x, fields, skip) ==
  IF fields = <<>> THEN <<>>
  ELSE LET f == Head(fields) IN
       (IF f \notin DOMAIN x \/ f \in skip THEN <<>>
        ELSE IF f \in NodeFields THEN PlaceholdersBut(x[f], skip)
        ELSE PlaceholdersOf(x[f], skip))
       \o PlaceholdersIn(x, Tail(fields), skip)

PlaceholdersOf(list, skip) ==
  IF list = <<>> THEN <<>>
  ELSE PlaceholdersBut(Head(list), skip) \o PlaceholdersOf(Tail(list), skip)

\* C26 as the specification states it: the scan gives every placeholder of
\* the tree once, in the order select, from and join conditions, where,
\* group expressions, having, order, sub-queries included; the tree is left
\* as it is; and the variable registered at index i is bound to the
\* placeholder at position i of the list
C26_AsStated ==
  /\ pc = "bind" => unknowns.value = PlaceholdersBut(base, {})
  /\ pc = "done" =>
       \A i \in 1..Len(unknowns.value) :
         i <= Len(variables) /\ ~variables[i].hole =>
           unknowns.value[i] = PropertyOf(RawAB, variables[i].name)

\* the part of C26 that holds: the same for every placeholder that is not
\* in the table of a from-table or of a join clause
C26_ButTables ==
  /\ pc = "bind" => unknowns.value = PlaceholdersBut(base, {"table"})
  /\ pc = "done" =>
       /\ Len(unknowns.value) = Len(PlaceholdersBut(base, {"table"}))
       /\ \A i \in 1..Len(unknowns.value) :
            unknowns.value[i] =
              IF i <= Len(variables) /\ ~variables[i].hole
              THEN PropertyOf(RawAB, variables[i].name)
              ELSE PlaceholdersBut(base, {"table"})[i]

\* the lines the running or last useShortcuts call wrote that tell what
\* became of a descriptor
RECURSIVE Outcomes(_)
Outcomes(lines) ==
  IF lines = <<>> THEN <<>>
  ELSE (IF Head(lines).msg \in {"registered", "Invalid", "Invalid shortcut type"}
        THEN <<Head(lines)>> ELSE <<>>)
       \o Outcomes(Tail(lines))

\* what the log tells of a descriptor processed without error
StatedOutcome(shortcut) ==
  IF shortcut.type \notin ShortcutTypes
  THEN Logged("Invalid shortcut type", <<shortcut.type>>)
  ELSE IF \/ shortcut.form = "none"
          \/ shortcut.type = "subquery" /\ shortcut.form = "queryArg"
  THEN Logged("Invalid", KeyOf(shortcut.type, shortcut.name))
  ELSE Logged("registered", KeyOf(shortcut.type, shortcut.name))

\* the call threw
Thrown == shortcuts.call > 0 /\ ~shortcuts.running /\ error # NoError

\* C27: the descriptors are processed in list order; one whose type has no
\* handler leaves a warning and the next ones are processed; when a handler
\* throws, the error thrown is the handler's with 'Fail to register
\* <type>:<name>' added, no later descriptor is processed, and what the
\* earlier descriptors registered is still in the registry
C27_ListOrder ==
  shortcuts.call > 0 =>
    LET list == shortcuts.list
        n == IF shortcuts.running \/ Thrown THEN shortcuts.next - 1 ELSE Len(list)
    IN
    /\ Outcomes(SubSeq(logged, shortcuts.mark + 1, Len(logged)))
         = [j \in 1..n |-> StatedOutcome(list[j])]
    /\ \A j \in 1..n :
         StatedOutcome(list[j]).msg = "registered"
           => KeyOf(list[j].type, list[j].name) \in DOMAIN subqueries
    /\ Thrown =>
         /\ error.kind = "Fail to register"
         /\ error.keys = <<<<list[shortcuts.next].type>> \o list[shortcuts.next].name>>
         /\ error.message.kind \in
              {"not registered", "thrown", "Missing name", "Invalid name"}

\* a call that threw at a descriptor that follows one without handler and
\* one that registered, and is followed by another
C27_Witness ==
  /\ Thrown
  /\ shortcuts.next = 3
  /\ Len(shortcuts.list) > 3
  /\ \E j \in 1..2 : shortcuts.list[j].type \notin ShortcutTypes

\* the names under which a descriptor has stored its expression so far, in
\* this useShortcuts call or an earlier one: line 82 of part_005 logs every
\* store
StoredNames ==
  {logged[i].key : i \in {j \in 1..Len(logged) : logged[j].msg = "field registered"}}

\* the keys of the prerequisites stored under the names, in order
RECURSIVE StoredKeys(_)
StoredKeys(names) ==
  IF names = <<>> THEN <<>>
  ELSE RegPrerequisite(context.regPrerequisites, Head(names)).keys
       \o StoredKeys(Tail(names))

\* a turn of the loop on a descriptor with an expression function that
\* reads no name of `excluded`: when it reads a name nothing is stored
\* under, the call throws "Expression 'X' not registered" for the first
\* such name; when something is stored under every name it reads, no such
\* error is thrown and the fragment it registers has its own prerequisite
\* followed by the ones stored under the names read
LookupTurn(excluded) ==
  LET shortcut == shortcuts.list[shortcuts.next]
      reads == shortcut.reads
      missing == {i \in 1..Len(reads) : reads[i] \notin StoredNames}
      first == CHOOSE i \in missing : \A j \in missing : i <= j
      key == KeyOf(shortcut.type, shortcut.name)
  IN
  /\ shortcuts.running
  /\ shortcuts.next <= Len(shortcuts.list)
  /\ shortcuts' # shortcuts
  /\ shortcut.type \in ShortcutTypes
  /\ shortcut.form = "function"
  /\ \A i \in 1..Len(reads) : reads[i] \notin excluded
  => /\ missing # {} =>
          /\ error'.kind = "Fail to register"
          /\ error'.message = [kind |-> "not registered", keys |-> <<reads[first]>>]
     /\ missing = {} /\ error' # NoError =>
          error'.message.kind # "not registered"
     /\ missing = {} /\ error' = NoError =>
          subqueries'[key].prerequisite =
            ListPrerequisite(shortcut.prerequisite.keys \o StoredKeys(reads))

\* C29 as the specification states it: a read of registered[X] by the
\* expression function of a descriptor succeeds exactly when an earlier
\* descriptor, of this useShortcuts call or of an earlier one on the same
\* QueryDef, stored an expression under X; it throws "Expression 'X' not
\* registered" otherwise; and a read that succeeds adds the prerequisite
\* stored under X to the prerequisite of the descriptor
C29_AsStated == [][LookupTurn({})]_vars

\* the part of C29 that holds: the same for every X that is not the name
\* of a member of Object.prototype
C29_OwnNames == [][LookupTurn(Inherited)]_vars

\* a registry whose fragments have a variable at every index below the
\* highest one registered
Contiguous(registry) ==
  \A k \in DOMAIN registry :
    \A i \in 1..Len(registry[k].variables) : ~registry[k].variables[i].hole

\* clone() is called
Cloning ==
  ~queryDef.made /\ error = NoError /\ <<queryDef, error>>' # <<queryDef, error>>

\* after clone(), a registration on one of the two leaves the other as it is
Independent ==
  queryDef.made =>
    subqueries' = subqueries \/ queryDef'.subqueries = queryDef.subqueries

\* C28 as the specification states it: clone() returns a registry with the
\* same keys, whose fragments have the same source, prerequisite and
\* variables at the same indices, whatever indices are registered; a
\* registration on one of the two afterwards leaves the other as it is
C28_AsStated ==
  [][/\ Cloning => queryDef'.made /\ queryDef'.subqueries = subqueries
     /\ Independent]_vars

\* the part of C28 that holds: the same when every fragment has a variable
\* at every index below the highest one registered
C28_Contiguous ==
  [][/\ Cloning /\ Contiguous(subqueries)
          => queryDef'.made /\ queryDef'.subqueries = subqueries
     /\ Independent]_vars
====
